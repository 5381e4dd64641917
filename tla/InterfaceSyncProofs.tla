------------------------ MODULE InterfaceSyncProofs -------------------------
(***************************************************************************)
(* Theorems about the sync of interfaces and addresses: for any devices,   *)
(* interfaces, addresses and snapshots, any number of jobs and of edits.   *)
(***************************************************************************)
EXTENDS InterfaceSync, TLAPS

-----------------------------------------------------------------------------
(* What holds of every database                                            *)

Keyed(R)        == \A q, r \in R : q.id = r.id => q = r
Below(D, n)     == /\ \A r \in Rows(D) : r.id < n
                   /\ \A d \in D.devices : \A p \in Primaries(d) : p < n
(* The address a is on an interface of the device with primary key k.      *)
OwnedBy(D, a, k) == \E i \in D.interfaces : i.id = a.iface /\ i.device = k
(* A primary address that is there is an address of the device.            *)
OwnOrGone(D)    == \A d \in D.devices : \A p \in Primaries(d) : \A a \in D.addresses :
                     a.id = p => OwnedBy(D, a, d.id)
Good(D, n) == /\ D \in Database /\ Keyed(D.interfaces) /\ Keyed(D.addresses)
              /\ Below(D, n) /\ OwnOrGone(D)

-----------------------------------------------------------------------------
(* What a job with the options o has made so far of the database B         *)

Marked(B, D) == \A r \in (D.interfaces \ B.interfaces) \cup (D.addresses \ B.addresses) : r.ssot
Alone(B, D)  == \A a, b \in D.addresses :
                  a \notin B.addresses /\ a.status = "Active" /\ b.iface = a.iface => a = b
KeepsRows(B, D) == /\ Ids(B.devices) \subseteq Ids(D.devices)
                   /\ Ids(B.interfaces) \subseteq Ids(D.interfaces)
InPlace(B, D) ==
  /\ \A a \in B.addresses, b \in D.addresses : a.id = b.id => a.iface = b.iface
  /\ \A a \in B.addresses : a.id \notin Ids(D.addresses) =>
       \E b \in D.addresses : b.iface = a.iface /\ b.id \notin Ids(B.addresses)
Since(B, D, o) == /\ Marked(B, D) /\ Alone(B, D)
                  /\ o.safe => KeepsRows(B, D)
                  /\ o.safe /\ o.ALLOW_DUPLICATE_IPS => InPlace(B, D)

DiffOK == \A e \in diff : e.name # 0 /\ e.action # "delete" => e.item \in Item

Inv == /\ TypeOK /\ DiffOK
       /\ Good(db, next_id) /\ Good(base, next_id) /\ ~ Dangling(base)
       /\ IF pc = "idle" THEN db = base ELSE job \in Options /\ Since(base, db, job)

-----------------------------------------------------------------------------
(* Rows                                                                    *)

LEMMA IdIs == \A n \in Id : n \in Nat /\ n + 1 \in Id /\ n < n + 1 /\ n # None
<1>1. \A n \in Id : n \in Nat /\ n + 1 \in Id /\ n < n + 1
  BY DEF Id
<1>2. \A n \in Id : n # None
  BY RanksAssumption, Zenon
<1> QED BY <1>1, <1>2, Zenon

LEMMA DeviceIs ==
  ASSUME NEW d \in DeviceRow
  PROVE  d.id \in Id /\ d.name \in Devices /\ d.ssot \in BOOLEAN /\ Primaries(d) \subseteq Id
BY DEF DeviceRow, Primaries

LEMMA DeviceTagged ==
  ASSUME NEW d \in DeviceRow
  PROVE  /\ TagObject(d) \in DeviceRow /\ Recovered(d) \in DeviceRow /\ SafeDeleted(d) \in DeviceRow
         /\ TagObject(d).id = d.id /\ Recovered(d).id = d.id /\ SafeDeleted(d).id = d.id
         /\ Primaries(TagObject(d)) = Primaries(d) /\ Primaries(Recovered(d)) = Primaries(d)
         /\ Primaries(SafeDeleted(d)) = Primaries(d)
BY DEF DeviceRow, TagObject, Recovered, SafeDeleted, IsFlagged, Primaries, Statuses

LEMMA AddressTagged ==
  ASSUME NEW a \in AddressRow
  PROVE  /\ TagObject(a) \in AddressRow /\ SafeDeleted(a) \in AddressRow
         /\ TagObject(a).id = a.id /\ SafeDeleted(a).id = a.id
         /\ TagObject(a).iface = a.iface /\ SafeDeleted(a).iface = a.iface
         /\ TagObject(a).host = a.host /\ TagObject(a).status = a.status
         /\ SafeDeleted(a).status = "Retired" /\ TagObject(a).ssot
         /\ SafeDeleted(a) = a \/ SafeDeleted(a).ssot
BY DEF AddressRow, TagObject, SafeDeleted, IsFlagged, Statuses

LEMMA Unlinking ==
  ASSUME NEW d \in DeviceRow, NEW ids
  PROVE  /\ Unlinked(d, ids) \in DeviceRow /\ Unlinked(d, ids).id = d.id
         /\ Primaries(Unlinked(d, ids)) = Primaries(d) \ ids
BY DEF DeviceRow, Unlinked, Primaries

LEMMA DatabaseIs ==
  ASSUME NEW D \in Database
  PROVE  /\ D.devices \subseteq DeviceRow /\ D.interfaces \subseteq InterfaceRow
         /\ D.addresses \subseteq AddressRow
         /\ \A r \in Rows(D) : r.id \in Id
         /\ \A a \in D.addresses : a.id \in Id /\ a.iface \in Id
         /\ \A i \in D.interfaces : i.id \in Id /\ i.device \in Id
BY DEF Database, Rows, DeviceRow, InterfaceRow, AddressRow

LEMMA GoodIs ==
  ASSUME NEW D, NEW n, Good(D, n)
  PROVE  /\ D \in Database /\ Keyed(D.interfaces) /\ Keyed(D.addresses)
         /\ \A r \in D.devices : r.id < n
         /\ \A r \in D.interfaces : r.id < n
         /\ \A r \in D.addresses : r.id < n
         /\ \A d \in D.devices : \A p \in Primaries(d) : p < n
BY DEF Good, Below, Rows

LEMMA GoodLater ==
  ASSUME NEW D, NEW n \in Id, Good(D, n)
  PROVE  Good(D, n + 1)
<1>1. \A k \in Id : k < n => k < n + 1
  BY DEF Id
<1>2. D \in Database /\ \A d \in D.devices : Primaries(d) \subseteq Id
  BY DatabaseIs, DeviceIs DEF Good
<1> QED BY <1>1, <1>2, DatabaseIs DEF Good, Below

-----------------------------------------------------------------------------
(* Writing one row                                                         *)

Tables(X, Y, Z) == [devices |-> X, interfaces |-> Y, addresses |-> Z]

LEMMA TablesIs ==
  ASSUME NEW D \in Database, NEW X
  PROVE  /\ [D EXCEPT !.devices = X] = Tables(X, D.interfaces, D.addresses)
         /\ [D EXCEPT !.interfaces = X] = Tables(D.devices, X, D.addresses)
         /\ [D EXCEPT !.addresses = X] = Tables(D.devices, D.interfaces, X)
BY DEF Database, Tables

LEMMA PutDevice ==
  ASSUME NEW D, NEW n, Good(D, n), NEW d \in DeviceRow, d.id < n,
         \A p \in Primaries(d) :
           p < n /\ \A a \in D.addresses : a.id = p => OwnedBy(D, a, d.id),
         NEW E, E = Tables(Put(D.devices, d), D.interfaces, D.addresses)
  PROVE  /\ Good(E, n) /\ Ids(D.devices) \subseteq Ids(E.devices)
         /\ E.interfaces = D.interfaces /\ E.addresses = D.addresses
<1>1. D \in Database
  BY DEF Good
<1>2. /\ E \in Database /\ E.devices = Put(D.devices, d)
      /\ E.interfaces = D.interfaces /\ E.addresses = D.addresses
  BY <1>1 DEF Database, Put, Tables
<1>3. Below(E, n)
  BY <1>2 DEF Good, Below, Rows, Put
<1>4. OwnOrGone(E)
  <2>1. \A a, k : OwnedBy(D, a, k) => OwnedBy(E, a, k)
    BY <1>2, Zenon DEF OwnedBy
  <2>2. \A c \in E.devices : c = d \/ c \in D.devices
    BY <1>2 DEF Put
  <2>3. OwnOrGone(D) /\ E.addresses = D.addresses
    BY <1>2 DEF Good
  <2> QED BY <2>1, <2>2, <2>3, Zenon DEF OwnOrGone
<1> QED BY <1>2, <1>3, <1>4 DEF Good, Ids, Put

LEMMA PutInterface ==
  ASSUME NEW D, NEW n, Good(D, n), NEW i \in InterfaceRow, i.id < n,
         \A j \in D.interfaces : j.id = i.id => j.device = i.device,
         NEW E, E = Tables(D.devices, Put(D.interfaces, i), D.addresses)
  PROVE  /\ Good(E, n) /\ Ids(D.interfaces) \subseteq Ids(E.interfaces) /\ i \in E.interfaces
         /\ E.devices = D.devices /\ E.addresses = D.addresses
         /\ E.interfaces \ D.interfaces \subseteq {i}
<1>1. D \in Database
  BY DEF Good
<1>2. /\ E \in Database /\ E.interfaces = Put(D.interfaces, i)
      /\ E.devices = D.devices /\ E.addresses = D.addresses
  BY <1>1 DEF Database, Put, Tables
<1>3. Below(E, n) /\ Keyed(E.interfaces)
  BY <1>2 DEF Good, Below, Rows, Put, Keyed
<1>4. ASSUME NEW a, NEW k, OwnedBy(D, a, k) PROVE OwnedBy(E, a, k)
  BY <1>2, <1>4 DEF OwnedBy, Put
<1>5. OwnOrGone(E)
  BY <1>2, <1>4 DEF Good, OwnOrGone
<1> QED BY <1>2, <1>3, <1>5 DEF Good, Ids, Put

LEMMA PutAddress ==
  ASSUME NEW D, NEW n, Good(D, n), NEW a \in AddressRow, a.id < n,
         \A d \in D.devices : a.id \in Primaries(d) => OwnedBy(D, a, d.id),
         NEW E, E = Tables(D.devices, D.interfaces, Put(D.addresses, a))
  PROVE  /\ Good(E, n) /\ E.devices = D.devices /\ E.interfaces = D.interfaces
         /\ E.addresses = Put(D.addresses, a)
<1>1. D \in Database
  BY DEF Good
<1>2. /\ E \in Database /\ E.addresses = Put(D.addresses, a)
      /\ E.devices = D.devices /\ E.interfaces = D.interfaces
  BY <1>1 DEF Database, Put, Tables
<1>3. Below(E, n) /\ Keyed(E.addresses)
  BY <1>2 DEF Good, Below, Rows, Put, Keyed
<1>4. OwnOrGone(E)
  <2>1. \A x, k : OwnedBy(D, x, k) => OwnedBy(E, x, k)
    BY <1>2, Zenon DEF OwnedBy
  <2>2. \A x \in E.addresses : x = a \/ x \in D.addresses
    BY <1>2 DEF Put
  <2>3. OwnOrGone(D) /\ E.devices = D.devices
    BY <1>2 DEF Good
  <2>4. ASSUME NEW d \in D.devices, NEW p \in Primaries(d), NEW x \in E.addresses, x.id = p
        PROVE  OwnedBy(D, x, d.id)
    BY <2>2, <2>3, <2>4 DEF OwnOrGone
  <2> QED BY <2>1, <2>3, <2>4 DEF OwnOrGone
<1> QED BY <1>2, <1>3, <1>4 DEF Good

-----------------------------------------------------------------------------
(* Deleting rows                                                           *)

LEMMA DeleteAddresses ==
  ASSUME NEW D, NEW n, Good(D, n), NEW A \in SUBSET D.addresses,
         NEW E, E = WithoutAddresses(D, A)
  PROVE  /\ Good(E, n) /\ Ids(E.devices) = Ids(D.devices)
         /\ E.interfaces = D.interfaces /\ E.addresses = D.addresses \ A
         /\ ~ Dangling(D) => ~ Dangling(E)
<1>1. D \in Database /\ D.devices \subseteq DeviceRow
  BY DatabaseIs DEF Good
<1>2. /\ E.devices = {Unlinked(d, Ids(A)) : d \in D.devices}
      /\ E.interfaces = D.interfaces /\ E.addresses = D.addresses \ A
  BY <1>1 DEF WithoutAddresses, Database
<1>3. E \in Database
  <2>1. {Unlinked(d, Ids(A)) : d \in D.devices} \subseteq DeviceRow
    BY <1>1, Unlinking
  <2> QED BY <1>1, <2>1 DEF WithoutAddresses, Database
<1>4. /\ \A d \in E.devices : \E c \in D.devices :
           d.id = c.id /\ Primaries(d) = Primaries(c) \ Ids(A)
      /\ \A c \in D.devices : \E d \in E.devices : d.id = c.id
  BY <1>1, <1>2, Unlinking
<1>5. Below(E, n)
  BY <1>2, <1>4 DEF Good, Below, Rows
<1>6. OwnOrGone(E) /\ Keyed(E.interfaces) /\ Keyed(E.addresses)
  BY <1>2, <1>4 DEF Good, OwnOrGone, OwnedBy, Keyed
<1>7. Ids(E.devices) = Ids(D.devices)
  BY <1>4 DEF Ids
<1>8. Ids(D.addresses) \ Ids(A) \subseteq Ids(E.addresses)
  BY <1>2 DEF Ids
<1>9. ~ Dangling(D) => ~ Dangling(E)
  BY <1>4, <1>8 DEF Dangling
<1> QED BY <1>2, <1>3, <1>5, <1>6, <1>7, <1>9 DEF Good

LEMMA DeleteInterfaces ==
  ASSUME NEW D, NEW n, Good(D, n), NEW I \in SUBSET D.interfaces,
         NEW E, E = WithoutInterfaces(D, I)
  PROVE  /\ Good(E, n) /\ Ids(E.devices) = Ids(D.devices) /\ E.interfaces = D.interfaces \ I
         /\ E.addresses = D.addresses \ UNION {AddressesOf(D, i) : i \in I}
         /\ ~ Dangling(D) => ~ Dangling(E)
<1>1. PICK A \in SUBSET D.addresses : A = UNION {AddressesOf(D, i) : i \in I}
  BY DEF AddressesOf
<1>2. PICK F : F = WithoutAddresses(D, A)
  OBVIOUS
<1>3. /\ Good(F, n) /\ Ids(F.devices) = Ids(D.devices)
      /\ F.interfaces = D.interfaces /\ F.addresses = D.addresses \ A
      /\ ~ Dangling(D) => ~ Dangling(F)
  BY <1>2, DeleteAddresses
<1>4. F \in Database
  BY <1>3 DEF Good
<1>5. E = [F EXCEPT !.interfaces = @ \ I]
  BY <1>1, <1>2, Zenon DEF WithoutInterfaces
<1>6. E = Tables(F.devices, F.interfaces \ I, F.addresses)
  BY <1>4, <1>5, TablesIs, Zenon
<1>7. /\ E \in Database /\ E.interfaces = D.interfaces \ I
      /\ E.devices = F.devices /\ E.addresses = F.addresses
  BY <1>3, <1>4, <1>6 DEF Database, Tables
<1>8. \A a \in F.addresses : \A i \in I : a.iface # i.id
  BY <1>1, <1>3 DEF AddressesOf
<1>9. Below(E, n) /\ Keyed(E.interfaces) /\ Keyed(E.addresses)
  BY <1>3, <1>7 DEF Good, Below, Rows, Keyed
<1>10. OwnOrGone(E)
  BY <1>3, <1>7, <1>8 DEF Good, OwnOrGone, OwnedBy
<1>11. ~ Dangling(F) => ~ Dangling(E)
  BY <1>7 DEF Dangling
<1> QED BY <1>1, <1>3, <1>7, <1>9, <1>10, <1>11 DEF Good

LEMMA DeleteDevices ==
  ASSUME NEW D, NEW n, Good(D, n), NEW S \in SUBSET D.devices, NEW E, E = WithoutDevices(D, S)
  PROVE  /\ Good(E, n) /\ E.interfaces \subseteq D.interfaces /\ E.addresses \subseteq D.addresses
<1> DEFINE I == UNION {InterfacesOf(D, d) : d \in S}
           F == WithoutInterfaces(D, I)
<1>1. I \in SUBSET D.interfaces
  BY DEF InterfacesOf
<1> HIDE DEF I
<1>2. /\ Good(F, n) /\ F.interfaces \subseteq D.interfaces /\ F.addresses \subseteq D.addresses
  BY <1>1, DeleteInterfaces
<1>3. E = [F EXCEPT !.devices = {d \in @ : d.id \notin Ids(S)}]
  BY DEF WithoutDevices, I
<1> HIDE DEF F
<1>4. F \in Database
  BY <1>2 DEF Good
<1>5. /\ E \in Database /\ E.devices \subseteq F.devices
      /\ E.interfaces = F.interfaces /\ E.addresses = F.addresses
  BY <1>3, <1>4 DEF Database
<1> QED BY <1>2, <1>5 DEF Good, Below, Rows, OwnOrGone, OwnedBy

-----------------------------------------------------------------------------
(* What a handler writes: E of the database D, of which n is the next key  *)

Resettled(D, E) == \A b \in E.addresses \ D.addresses :
                     \/ b.status = "Active" /\ \A a \in E.addresses : a.iface = b.iface => a = b
                     \/ b.status # "Active" /\ \E c \in D.addresses : c.id = b.id /\ c.iface = b.iface
Replaced(D, E, n) ==
  /\ \A b \in E.addresses : b.id < n => \E c \in D.addresses : c.id = b.id /\ c.iface = b.iface
  /\ \A a \in D.addresses : a.id \notin Ids(E.addresses) =>
       \E b \in E.addresses : b.iface = a.iface /\ ~ (b.id < n)
Wrote(D, E, n, o) == /\ Marked(D, E) /\ Resettled(D, E)
                     /\ o.safe => KeepsRows(D, E)
                     /\ o.safe /\ o.ALLOW_DUPLICATE_IPS => Replaced(D, E, n)

LEMMA WroteSince ==
  ASSUME NEW B, NEW D, NEW E, NEW n, NEW o, Good(B, n), Good(D, n), Keyed(E.addresses),
         Since(B, D, o), Wrote(D, E, n, o)
  PROVE  Since(B, E, o)
<1>1. Marked(B, E)
  BY DEF Since, Wrote, Marked
<1>2. Alone(B, E)
  BY DEF Since, Wrote, Alone, Resettled, Keyed
<1>3. o.safe => KeepsRows(B, E)
  BY DEF Since, Wrote, KeepsRows
<1>4. ASSUME o.safe, o.ALLOW_DUPLICATE_IPS PROVE InPlace(B, E)
  <2>1. InPlace(B, D) /\ Replaced(D, E, n) /\ Keyed(D.addresses)
        /\ \A a \in B.addresses : a.id < n
    BY <1>4, GoodIs DEF Since, Wrote
  <2>2. ASSUME NEW a \in B.addresses, NEW b \in E.addresses, a.id = b.id PROVE a.iface = b.iface
    BY <2>1, <2>2 DEF InPlace, Replaced
  <2>3. ASSUME NEW a \in B.addresses, a.id \notin Ids(E.addresses)
        PROVE  \E b \in E.addresses : b.iface = a.iface /\ b.id \notin Ids(B.addresses)
    <3>1. \A b \in E.addresses : ~ (b.id < n) => b.id \notin Ids(B.addresses)
      BY <2>1 DEF Ids
    <3>2. CASE a.id \in Ids(D.addresses)
      <4>1. PICK c \in D.addresses : c.id = a.id /\ c.iface = a.iface
        BY <2>1, <3>2 DEF Ids, InPlace
      <4> QED BY <2>1, <2>3, <3>1, <4>1 DEF Replaced
    <3>3. CASE a.id \notin Ids(D.addresses)
      <4>1. PICK c \in D.addresses : c.iface = a.iface /\ c.id \notin Ids(B.addresses)
        BY <2>1, <3>3 DEF InPlace
      <4>2. CASE c.id \notin Ids(E.addresses)
        BY <2>1, <3>1, <4>1, <4>2 DEF Replaced
      <4>3. CASE c.id \in Ids(E.addresses)
        <5>1. PICK b \in E.addresses : b.id = c.id
          BY <4>3 DEF Ids
        <5>2. c.id < n
          BY GoodIs
        <5>3. b.iface = c.iface
          BY <2>1, <5>1, <5>2 DEF Replaced, Keyed
        <5> QED BY <4>1, <5>1, <5>3
      <4> QED BY <4>2, <4>3
    <3> QED BY <3>2, <3>3
  <2> QED BY <2>2, <2>3 DEF InPlace
<1> QED BY <1>1, <1>2, <1>3, <1>4 DEF Since

LEMMA WroteNothing == ASSUME NEW D, NEW n, NEW o PROVE Wrote(D, D, n, o)
BY DEF Wrote, Marked, Resettled, KeepsRows, Replaced, Ids

(* A handler that is not left by an exception.                             *)
JobWrote == /\ next_id' \in Id /\ Good(db', next_id') /\ Good(base, next_id')
            /\ Wrote(db, db', next_id, job)
Goods == Good(db, next_id) /\ Good(base, next_id) /\ next_id \in Id

LEMMA AnyIsIn == ASSUME NEW R, R # {} PROVE (CHOOSE r \in R : TRUE) \in R
OBVIOUS

LEMMA PrimaryIs ==
  ASSUME NEW D \in Database, NEW d \in DeviceRow, NEW a \in AddressRow
  PROVE  \E c \in DeviceRow : /\ WithPrimary(D, d, a) = Tables(Put(D.devices, c), D.interfaces, D.addresses)
                              /\ c.id = d.id /\ Primaries(c) \subseteq Primaries(d) \cup {a.id}
<1> DEFINE c == [d EXCEPT !.primary_ip4 = IF Family[a.host] = 4 THEN a.id ELSE @,
                          !.primary_ip6 = IF Family[a.host] = 6 THEN a.id ELSE @]
<1>1. c \in DeviceRow /\ c.id = d.id /\ Primaries(c) \subseteq Primaries(d) \cup {a.id}
  BY DEF DeviceRow, AddressRow, Primaries
<1>2. WithPrimary(D, d, a) = [D EXCEPT !.devices = Put(@, c)]
  BY Zenon DEF WithPrimary
<1> HIDE DEF c
<1>3. WithPrimary(D, d, a) = Tables(Put(D.devices, c), D.interfaces, D.addresses)
  BY <1>2, TablesIs, Zenon
<1> QED BY <1>1, <1>3, Zenon

LEMMA PrimaryKeeps ==
  ASSUME NEW D \in Database, NEW d \in DeviceRow, NEW a \in AddressRow
  PROVE  /\ Ids(D.devices) \subseteq Ids(WithPrimary(D, d, a).devices)
         /\ WithPrimary(D, d, a).interfaces = D.interfaces
         /\ WithPrimary(D, d, a).addresses = D.addresses
<1>1. PICK c \in DeviceRow :
        /\ WithPrimary(D, d, a) = Tables(Put(D.devices, c), D.interfaces, D.addresses)
        /\ c.id = d.id
  BY PrimaryIs
<1> QED BY <1>1 DEF Tables, Ids, Put

(* Setting a primary address of a device that was fetched before.          *)
LEMMA SetPrimary ==
  ASSUME NEW D, NEW n, Good(D, n), NEW d \in DeviceRow, d.id < n,
         \A p \in Primaries(d) :
           p < n /\ \A x \in D.addresses : x.id = p => OwnedBy(D, x, d.id),
         NEW a \in D.addresses, OwnedBy(D, a, d.id)
  PROVE  Good(WithPrimary(D, d, a), n)
<1>1. a \in AddressRow /\ a.id < n /\ Keyed(D.addresses) /\ D \in Database
  BY GoodIs, DatabaseIs
<1>2. PICK c \in DeviceRow :
        /\ WithPrimary(D, d, a) = Tables(Put(D.devices, c), D.interfaces, D.addresses)
        /\ c.id = d.id /\ Primaries(c) \subseteq Primaries(d) \cup {a.id}
  BY <1>1, PrimaryIs
<1>3. \A p \in Primaries(c) :
        p < n /\ \A x \in D.addresses : x.id = p => OwnedBy(D, x, c.id)
  BY <1>1, <1>2 DEF Keyed
<1>4. c.id < n
  BY <1>2
<1> QED BY <1>2, <1>3, <1>4, PutDevice

-----------------------------------------------------------------------------
(* Interfaces and their addresses                                          *)

LEMMA CreatedIpIs ==
  ASSUME NEW D \in Database, NEW h \in Hosts, NEW i \in InterfaceRow, NEW n \in Id,
         NEW a, a = CreatedIp(D, h, i, n)
  PROVE  /\ a \in AddressRow /\ a.iface = i.id /\ a.ssot /\ a.status = "Active"
         /\ \/ a.id = n
            \/ ~ job.ALLOW_DUPLICATE_IPS /\ \E c \in FoundIps(D, h) : c.id = a.id
<1>1. FoundIps(D, h) \subseteq D.addresses /\ \A c \in FoundIps(D, h) : c.status = "Active"
  BY DEF FoundIps
<1>2. D.addresses \subseteq AddressRow /\ i.id \in Id
  BY DatabaseIs DEF InterfaceRow
<1>3. CASE FoundIps(D, h) = {}
  <2>1. a = [id |-> n, host |-> h, iface |-> i.id, status |-> "Active", ssot |-> TRUE, safe |-> FALSE]
    BY <1>3 DEF CreatedIp
  <2> QED BY <1>2, <2>1 DEF AddressRow, Statuses
<1>4. CASE FoundIps(D, h) # {}
  <2>1. PICK c \in FoundIps(D, h) : a = [TagObject(c) EXCEPT !.iface = i.id]
    BY <1>4, AnyIsIn DEF CreatedIp
  <2>2. c \in AddressRow /\ c.status = "Active"
    BY <1>1, <1>2
  <2>3. /\ a \in AddressRow /\ a.iface = i.id /\ a.ssot /\ a.status = "Active" /\ a.id = c.id
    BY <1>2, <2>1, <2>2 DEF TagObject, AddressRow
  <2>4. ~ job.ALLOW_DUPLICATE_IPS
    BY <1>4 DEF FoundIps
  <2> QED BY <2>1, <2>3, <2>4
<1> QED BY <1>3, <1>4

(* SaveInterface, step by step: the interface without the addresses it     *)
(* has, the new address, and the database with it.                         *)
Cleared(D, i)     == WithoutAddresses(D, AddressesOf(D, i))
Given(D, i, h, n) == CreatedIp(Cleared(D, i), h, i, n)
Added(D, i, h, n) == Tables(Cleared(D, i).devices, Cleared(D, i).interfaces,
                            Put(Cleared(D, i).addresses, Given(D, i, h, n)))

LEMMA GiveAddress ==
  ASSUME NEW D, NEW n \in Id, Good(D, n), NEW d \in DeviceRow, d.id < n,
         \A p \in Primaries(d) :
           p < n /\ \A x \in D.addresses : x.id = p => OwnedBy(D, x, d.id),
         NEW i \in D.interfaces, i.device = d.id, NEW h \in Hosts, ~ IpRefused(Cleared(D, i), h, i),
         NEW E, E = Added(D, i, h, n) \/ E = WithPrimary(Added(D, i, h, n), d, Given(D, i, h, n))
  PROVE  /\ Good(E, n + 1) /\ Ids(D.devices) \subseteq Ids(E.devices)
         /\ E.interfaces = D.interfaces
         /\ E.addresses = Put(D.addresses \ AddressesOf(D, i), Given(D, i, h, n))
         /\ Given(D, i, h, n).iface = i.id /\ Given(D, i, h, n).ssot
         /\ Given(D, i, h, n).status = "Active"
         /\ job.ALLOW_DUPLICATE_IPS => Given(D, i, h, n).id = n
<1> DEFINE F == Cleared(D, i)
           a == Given(D, i, h, n)
           G == Added(D, i, h, n)
<1>0. /\ F = WithoutAddresses(D, AddressesOf(D, i)) /\ ~ IpRefused(F, h, i)
      /\ a = CreatedIp(F, h, i, n)
      /\ G = Tables(F.devices, F.interfaces, Put(F.addresses, a))
      /\ E = G \/ E = WithPrimary(G, d, a)
  BY DEF Cleared, Given, Added
<1> SUFFICES /\ Good(E, n + 1) /\ Ids(D.devices) \subseteq Ids(E.devices)
             /\ E.interfaces = D.interfaces
             /\ E.addresses = Put(D.addresses \ AddressesOf(D, i), a)
             /\ a.iface = i.id /\ a.ssot /\ a.status = "Active"
             /\ job.ALLOW_DUPLICATE_IPS => a.id = n
  OBVIOUS
<1> HIDE DEF F, a, G
<1>1. /\ Good(F, n) /\ Ids(F.devices) = Ids(D.devices) /\ F.interfaces = D.interfaces
      /\ F.addresses = D.addresses \ AddressesOf(D, i) /\ F \in Database
  <2>1. AddressesOf(D, i) \in SUBSET D.addresses
    BY DEF AddressesOf
  <2>2. Good(F, n) /\ Ids(F.devices) = Ids(D.devices) /\ F.interfaces = D.interfaces
        /\ F.addresses = D.addresses \ AddressesOf(D, i)
    BY <1>0, <2>1, DeleteAddresses
  <2> QED BY <2>2 DEF Good
<1>2. n + 1 \in Id /\ \A k \in Id : k < n => k < n + 1
  BY DEF Id
<1>3. Good(F, n + 1)
  BY <1>1, GoodLater
<1>4. i \in InterfaceRow /\ \A x \in F.addresses : x.id < n /\ x.id \in Id
  BY <1>1, DatabaseIs, GoodIs
<1>5. /\ a \in AddressRow /\ a.iface = i.id /\ a.ssot /\ a.status = "Active"
      /\ \/ a.id = n
         \/ ~ job.ALLOW_DUPLICATE_IPS /\ \E c \in FoundIps(F, h) : c.id = a.id
  BY <1>0, <1>1, <1>4, CreatedIpIs
<1>6. FoundIps(F, h) \subseteq F.addresses
  BY DEF FoundIps
<1>7. a.id < n + 1
  BY <1>2, <1>4, <1>5, <1>6, IdIs
<1>8. \A c \in F.devices : a.id \in Primaries(c) => OwnedBy(F, a, c.id)
  <2> SUFFICES ASSUME NEW c \in F.devices, a.id \in Primaries(c) PROVE OwnedBy(F, a, c.id)
    OBVIOUS
  <2>1. a.id < n
    BY <1>1, GoodIs
  <2>2. a.id # n
    BY <2>1, IdIs DEF Id
  <2>3. a.id \in Ids(FoundIps(F, h))
    BY <1>5, <2>2 DEF Ids
  <2>4. c.id = i.device
    BY <1>0, <2>3 DEF IpRefused
  <2> QED BY <1>1, <1>5, <2>4 DEF OwnedBy
<1>9. Good(G, n + 1)
  BY <1>0, <1>3, <1>5, <1>7, <1>8, PutAddress
<1>10. /\ G.devices = F.devices /\ G.interfaces = D.interfaces /\ a \in G.addresses
       /\ G.addresses = Put(D.addresses \ AddressesOf(D, i), a)
  BY <1>0, <1>1 DEF Tables, Put
<1>11. CASE E = G
  BY <1>1, <1>5, <1>9, <1>10, <1>11
<1>12. CASE E = WithPrimary(G, d, a)
  <2>1. OwnedBy(G, a, d.id) /\ \A x, k : OwnedBy(D, x, k) => OwnedBy(G, x, k)
    BY <1>5, <1>10 DEF OwnedBy
  <2>2. ASSUME NEW p \in Primaries(d)
        PROVE  p < n + 1 /\ \A x \in G.addresses : x.id = p => OwnedBy(G, x, d.id)
    <3>1. p \in Id /\ p < n
      BY DeviceIs
    <3>2. \A x \in G.addresses : x = a \/ x \in D.addresses
      BY <1>10 DEF Put
    <3> QED BY <1>2, <2>1, <3>1, <3>2
  <2>3. d.id < n + 1
    BY <1>2, DeviceIs
  <2>4. Good(E, n + 1)
    BY <1>2, <1>9, <1>10, <1>12, <2>1, <2>2, <2>3, SetPrimary
  <2>5. Ids(G.devices) \subseteq Ids(E.devices) /\ E.interfaces = G.interfaces
        /\ E.addresses = G.addresses
    BY <1>5, <1>9, <1>12, PrimaryKeeps DEF Good
  <2> QED BY <1>1, <1>5, <1>10, <2>4, <2>5
<1> QED BY <1>0, <1>11, <1>12

LEMMA WroteInterface ==
  ASSUME NEW D, NEW E, NEW n, NEW o, NEW i, i.ssot, E.interfaces \ D.interfaces \subseteq {i},
         E.addresses = D.addresses, KeepsRows(D, E)
  PROVE  Wrote(D, E, n, o)
BY DEF Wrote, Marked, Resettled, Replaced, Ids

LEMMA WroteAddress ==
  ASSUME NEW D, NEW E, NEW n, NEW o, NEW i, NEW a, i.ssot, a.ssot, a.status = "Active",
         \A c \in D.addresses : c.id < n, a.iface = i.id,
         o.ALLOW_DUPLICATE_IPS => ~ (a.id < n),
         E.interfaces \ D.interfaces \subseteq {i}, KeepsRows(D, E),
         E.addresses = Put({c \in D.addresses : c.iface # i.id}, a)
  PROVE  Wrote(D, E, n, o)
<1>1. Marked(D, E)
  BY DEF Marked, Put
<1>2. Resettled(D, E)
  BY DEF Resettled, Put
<1>3. ASSUME o.ALLOW_DUPLICATE_IPS PROVE Replaced(D, E, n)
  BY <1>3 DEF Replaced, Put, Ids
<1> QED BY <1>1, <1>2, <1>3 DEF Wrote

LEMMA SaveInterfaceWrites ==
  ASSUME Goods, job \in Option, NEW e, NEW d \in db.devices, NEW i \in InterfaceRow,
         NEW n \in {next_id, next_id + 1}, i.id < n, i.device = d.id, i.ssot,
         \A j \in db.interfaces : j.id = i.id => j.device = i.device,
         NEW host \in Hosts \cup {None}, NEW primary \in BOOLEAN,
         SaveInterface(e, d, i, n, host, primary)
  PROVE  Raise \/ (JobWrote /\ Done(e) /\ UNCHANGED objects_to_delete)
<1> DEFINE W == Tables(db.devices, Put(db.interfaces, i), db.addresses)
           F == Cleared(W, i)
           a == Given(W, i, host, n)
           G == Added(W, i, host, n)
<1>1. /\ next_id \in Id /\ n \in Id /\ db \in Database /\ d \in DeviceRow
      /\ \A k \in Id : k < next_id => k < n
  BY IdIs, DatabaseIs DEF Goods, Good, Id
<1>2. Good(db, n) /\ Good(base, n) /\ Good(base, n + 1)
  BY <1>1, GoodLater DEF Goods
<1>3. Good(W, n)
  BY <1>2, PutInterface
<1>4. W = [db EXCEPT !.interfaces = Put(@, i)]
  BY <1>1, TablesIs
<1>5. /\ W.devices = db.devices /\ W.addresses = db.addresses /\ i \in W.interfaces
      /\ W.interfaces \ db.interfaces \subseteq {i} /\ Ids(db.interfaces) \subseteq Ids(W.interfaces)
  BY DEF Tables, Put, Ids
<1>6. /\ d.id < n
      /\ \A p \in Primaries(d) :
           p < n /\ \A x \in W.addresses : x.id = p => OwnedBy(W, x, d.id)
  BY <1>2, <1>3, <1>5 DEF Good, Below, Rows, OwnOrGone
<1>7. W \in Database /\ \A c \in db.addresses : c.id < next_id
  BY <1>3, GoodIs DEF Goods
<1>8. SaveInterface(e, d, i, n, host, primary) <=>
        IF host # None /\ IpRefused(F, host, i) THEN Raise
        ELSE /\ db' = CASE host # None /\ primary -> WithPrimary(
                             [F EXCEPT !.addresses = Put(@, a)], d, a)
                        [] host # None /\ ~ primary -> [F EXCEPT !.addresses = Put(@, a)]
                        [] host = None /\ primary /\ FirstAddress(W, i) # {} ->
                             WithPrimary(W, d, CHOOSE x \in FirstAddress(W, i) : TRUE)
                        [] OTHER -> W
             /\ next_id' = IF host = None THEN n ELSE n + 1
             /\ Done(e) /\ UNCHANGED objects_to_delete
  BY <1>4, Zenon DEF SaveInterface, Cleared, Given
<1> HIDE DEF W
<1>9. ASSUME host = None PROVE JobWrote /\ Done(e) /\ UNCHANGED objects_to_delete
  <2>1. /\ next_id' = n /\ Done(e) /\ UNCHANGED objects_to_delete
        /\ db' = IF primary /\ FirstAddress(W, i) # {}
                 THEN WithPrimary(W, d, CHOOSE x \in FirstAddress(W, i) : TRUE) ELSE W
    BY <1>8, <1>9
  <2>2. CASE db' = W
    <3>1. Wrote(db, db', next_id, job)
      BY <1>5, <2>2, WroteInterface DEF KeepsRows
    <3> QED BY <1>1, <1>2, <1>3, <2>1, <2>2, <3>1 DEF JobWrote
  <2>3. CASE primary /\ FirstAddress(W, i) # {}
    <3>1. PICK x \in FirstAddress(W, i) : db' = WithPrimary(W, d, x)
      BY <2>1, <2>3, AnyIsIn
    <3>2. x \in W.addresses /\ OwnedBy(W, x, d.id) /\ x \in AddressRow
      BY <1>5, <1>7, <3>1, DatabaseIs DEF FirstAddress, AddressesOf, OwnedBy
    <3>3. Good(db', n)
      BY <1>1, <1>3, <1>6, <3>1, <3>2, SetPrimary
    <3>4. /\ Ids(W.devices) \subseteq Ids(db'.devices) /\ db'.interfaces = W.interfaces
          /\ db'.addresses = W.addresses
      BY <1>1, <1>7, <3>1, <3>2, PrimaryKeeps
    <3>5. Wrote(db, db', next_id, job)
      BY <1>5, <3>4, WroteInterface DEF KeepsRows
    <3> QED BY <1>1, <1>2, <2>1, <3>3, <3>5 DEF JobWrote
  <2> QED BY <2>1, <2>2, <2>3
<1>10. ASSUME host # None, ~ IpRefused(F, host, i)
       PROVE  JobWrote /\ Done(e) /\ UNCHANGED objects_to_delete
  <2>1. F \in Database
    <3>1. AddressesOf(W, i) \in SUBSET W.addresses
      BY DEF AddressesOf
    <3> QED BY <1>3, <3>1, DeleteAddresses DEF Good, Cleared
  <2>2. G = [F EXCEPT !.addresses = Put(@, a)]
    BY <2>1, TablesIs, Zenon DEF Added
  <2>3. /\ next_id' = n + 1 /\ Done(e) /\ UNCHANGED objects_to_delete
        /\ db' = G \/ db' = WithPrimary(G, d, a)
    BY <1>8, <1>10, <2>2
  <2>4. host \in Hosts
    BY <1>10
  <2>5. /\ Good(db', n + 1) /\ Ids(W.devices) \subseteq Ids(db'.devices)
        /\ db'.interfaces = W.interfaces
        /\ db'.addresses = Put(W.addresses \ AddressesOf(W, i), a)
        /\ a.iface = i.id /\ a.ssot /\ a.status = "Active"
        /\ job.ALLOW_DUPLICATE_IPS => a.id = n
    <3>1. /\ n \in Id /\ d \in DeviceRow /\ d.id < n
          /\ \A p \in Primaries(d) :
               p < n /\ \A x \in W.addresses : x.id = p => OwnedBy(W, x, d.id)
          /\ i \in W.interfaces /\ ~ IpRefused(Cleared(W, i), host, i)
      BY <1>1, <1>5, <1>6, <1>10
    <3>2. db' = Added(W, i, host, n)
          \/ db' = WithPrimary(Added(W, i, host, n), d, Given(W, i, host, n))
      BY <2>3
    <3> QED BY <1>3, <2>4, <3>1, <3>2, GiveAddress
  <2> HIDE DEF F, a, G
  <2>6. db'.addresses = Put({c \in db.addresses : c.iface # i.id}, a)
    BY <1>5, <2>5 DEF AddressesOf
  <2>7. ~ (n < next_id)
    BY <1>1 DEF Id
  <2>8. Wrote(db, db', next_id, job)
    BY <1>5, <1>7, <2>5, <2>6, <2>7, WroteAddress DEF KeepsRows
  <2> QED BY <1>1, <1>2, <2>3, <2>5, <2>8, IdIs DEF JobWrote
<1> QED BY <1>8, <1>9, <1>10

-----------------------------------------------------------------------------
(* The handlers                                                            *)

(* What create writes for an item, found or new.                           *)
LEMMA CreatedInterfaceIs ==
  ASSUME Goods, NEW d \in db.devices, NEW x \in Item, NEW c, c = CreatedInterface(d, x)
  PROVE  /\ c \in InterfaceRow /\ c.device = d.id /\ c.name = x.name /\ c.ssot /\ c.mtu = x.mtu
         /\ IsGiven(x.text) => c.text = x.text
         /\ \A j \in db.interfaces : j.id = c.id => j.device = c.device
         /\ IF Called(d, x.name) = {}
            THEN c.id = next_id /\ \A j \in db.interfaces : j.device = d.id => j.name # x.name
            ELSE c.id < next_id /\ \E j \in db.interfaces : c.id = j.id /\ c.device = j.device /\ c.name = j.name
<1> DEFINE written(i) == [TagObject(i) EXCEPT !.text = IF IsGiven(x.text) THEN x.text
                                                       ELSE IF i.mtu = x.mtu THEN @ ELSE "",
                                              !.mtu  = x.mtu]
<1>1. /\ db \in Database /\ d.id \in Id /\ next_id \in Id
      /\ \A j \in db.interfaces : j.id < next_id /\ j.id \in Id
  BY DatabaseIs, DeviceIs, GoodIs DEF Goods
<1>2. x.name \in Ifaces /\ x.mtu \in Mtus /\ x.text \in Texts \cup {None}
  BY DEF Item
<1>3. ASSUME NEW i \in InterfaceRow
      PROVE  /\ written(i) \in InterfaceRow /\ written(i).id = i.id /\ written(i).name = i.name
             /\ written(i).device = i.device /\ written(i).ssot /\ written(i).mtu = x.mtu
             /\ IsGiven(x.text) => written(i).text = x.text
  BY <1>2, RanksAssumption DEF InterfaceRow, TagObject, IsGiven
<1>4. CASE Called(d, x.name) = {}
  <2> DEFINE new == [id |-> next_id, device |-> d.id, name |-> x.name, text |-> "",
                     mtu |-> x.mtu, ssot |-> TRUE, safe |-> FALSE]
  <2>1. new \in InterfaceRow /\ new.id = next_id /\ new.device = d.id /\ new.name = x.name
    BY <1>1, <1>2, RanksAssumption DEF InterfaceRow
  <2>2. c = written(new)
    BY <1>4 DEF CreatedInterface
  <2> HIDE DEF new, written
  <2>3. \A j \in db.interfaces : j.id # new.id
    BY <1>1, <2>1 DEF Id
  <2>4. \A j \in db.interfaces : j.device = d.id => j.name # x.name
    BY <1>4 DEF Called, InterfacesOf
  <2> QED BY <1>3, <1>4, <2>1, <2>2, <2>3, <2>4
<1>5. CASE Called(d, x.name) # {}
  <2>1. PICK i \in Called(d, x.name) : c = written(i)
    BY <1>5, AnyIsIn DEF CreatedInterface
  <2>2. i \in InterfaceRow /\ i \in db.interfaces /\ i.device = d.id /\ i.name = x.name
    BY <1>1, <2>1, DatabaseIs DEF Called, InterfacesOf
  <2>3. \A j \in db.interfaces : j.id = i.id => j = i
    BY <2>2, GoodIs DEF Goods, Keyed
  <2> HIDE DEF written
  <2> QED BY <1>1, <1>3, <1>5, <2>1, <2>2, <2>3
<1> QED BY <1>4, <1>5

LEMMA CreateInterfaceKeeps ==
  ASSUME TypeOK, DiffOK, Goods, job \in Option, NEW e \in diff, e.name # 0, e.action = "create",
         CreateInterface(e)
  PROVE  Raise \/ (JobWrote /\ Done(e) /\ UNCHANGED objects_to_delete)
<1>1. CASE TaggedDevices(e) = {}
  BY <1>1 DEF CreateInterface
<1>2. CASE TaggedDevices(e) # {}
  <2>1. PICK d \in TaggedDevices(e) :
          SaveInterface(e, d, CreatedInterface(d, e.item),
                        IF Called(d, e.item.name) = {} THEN next_id + 1 ELSE next_id,
                        e.item.ip, e.item.ip # None /\ e.item.primary)
    BY <1>2 DEF CreateInterface
  <2> DEFINE x == e.item
             n == IF Called(d, x.name) = {} THEN next_id + 1 ELSE next_id
             c == CreatedInterface(d, x)
  <2>2. /\ d \in db.devices /\ d \in DeviceRow /\ d.id \in Id /\ next_id \in Id
        /\ Called(d, x.name) \subseteq db.interfaces /\ db \in Database
        /\ \A i \in Called(d, x.name) : i.device = d.id
    BY DatabaseIs, DeviceIs DEF TaggedDevices, NamedDevices, Called, InterfacesOf, Goods, Good
  <2>3. x \in Item
    BY DEF DiffOK
  <2>4. /\ x.name \in Ifaces /\ x.mtu \in Mtus /\ x.text \in Texts \cup {None}
        /\ x.ip \in Hosts \cup {None} /\ (x.ip # None /\ x.primary) \in BOOLEAN
    BY <2>3 DEF Item
  <2>5. /\ c \in InterfaceRow /\ c.device = d.id /\ c.ssot /\ c.id < n
        /\ \A j \in db.interfaces : j.id = c.id => j.device = c.device
    <3>1. next_id < next_id + 1
      BY <2>2, IdIs
    <3>2. PICK k : k = c
      OBVIOUS
    <3> HIDE DEF c
    <3> QED BY <2>2, <2>3, <3>1, <3>2, CreatedInterfaceIs DEF c
  <2>6. n \in {next_id, next_id + 1}
    OBVIOUS
  <2> HIDE DEF x, n, c
  <2>7. SaveInterface(e, d, c, n, x.ip, x.ip # None /\ x.primary)
    BY <2>1 DEF x, n, c
  <2> QED BY <2>2, <2>4, <2>5, <2>6, <2>7, SaveInterfaceWrites
<1> QED BY <1>1, <1>2

LEMMA UpdateInterfaceKeeps ==
  ASSUME TypeOK, DiffOK, Goods, job \in Option, NEW e \in diff, e.name # 0, e.action = "update",
         UpdateInterface(e)
  PROVE  Raise \/ (JobWrote /\ Done(e) /\ UNCHANGED objects_to_delete)
<1>1. CASE TaggedDevices(e) = {}
  BY <1>1 DEF UpdateInterface
<1>2. ASSUME NEW d \in TaggedDevices(e), Called(d, e.name) = {}, Raise
      PROVE  Raise
  BY <1>2
<1>3. ASSUME NEW d \in TaggedDevices(e), NEW i \in Called(d, e.name),
             LET x    == e.item
                 text == "text" \in e.attrs /\ IsGiven(x.text)
             IN  SaveInterface(e, d,
                   [TagObject(i) EXCEPT !.text = IF text THEN x.text ELSE @,
                                        !.mtu  = IF "mtu" \in e.attrs THEN x.mtu ELSE @],
                   next_id, IF "ip" \in e.attrs THEN x.ip ELSE None,
                   "primary" \in e.attrs /\ x.primary)
      PROVE  Raise \/ (JobWrote /\ Done(e) /\ UNCHANGED objects_to_delete)
  <2> DEFINE x    == e.item
             text == "text" \in e.attrs /\ IsGiven(x.text)
             c    == [TagObject(i) EXCEPT !.text = IF text THEN x.text ELSE @,
                                          !.mtu  = IF "mtu" \in e.attrs THEN x.mtu ELSE @]
             host == IF "ip" \in e.attrs THEN x.ip ELSE None
             main == "primary" \in e.attrs /\ x.primary
  <2>1. SaveInterface(e, d, c, next_id, host, main)
    BY <1>3
  <2>2. /\ d \in db.devices /\ i \in db.interfaces /\ i.device = d.id /\ i \in InterfaceRow
        /\ i.id < next_id /\ \A j \in db.interfaces : j.id = i.id => j = i
    BY DatabaseIs, GoodIs DEF TaggedDevices, NamedDevices, Called, InterfacesOf, Goods, Keyed
  <2>3. x \in Item
    BY DEF DiffOK
  <2>4. host \in Hosts \cup {None} /\ main \in BOOLEAN
    BY <2>3 DEF Item
  <2>5. c \in InterfaceRow /\ c.id = i.id /\ c.device = i.device /\ c.ssot
    BY <2>2, <2>3 DEF Item, InterfaceRow, TagObject, IsGiven
  <2> HIDE DEF c, host, main
  <2> QED BY <2>1, <2>2, <2>4, <2>5, SaveInterfaceWrites
<1> QED BY <1>1, <1>3 DEF UpdateInterface

(* Addresses retired where they are.                                       *)
Flagged(R, A) == (R \ A) \cup {SafeDeleted(a) : a \in A}
Retired(R, S) ==
  /\ \A b \in S \ R : b.ssot /\ b.status # "Active"
  /\ \A b \in S : \E c \in R : c.id = b.id /\ c.iface = b.iface
  /\ Ids(S) = Ids(R)

LEMMA SaveAddresses ==
  ASSUME NEW D, NEW n, Good(D, n), NEW A \in SUBSET D.addresses,
         NEW E, E = Tables(D.devices, D.interfaces, Flagged(D.addresses, A))
  PROVE  Good(E, n) /\ Retired(D.addresses, E.addresses)
<1>1. D \in Database /\ D.addresses \subseteq AddressRow /\ A \subseteq AddressRow
  BY DatabaseIs DEF Good
<1>2. /\ E.devices = D.devices /\ E.interfaces = D.interfaces
      /\ E.addresses = (D.addresses \ A) \cup {SafeDeleted(a) : a \in A}
  BY DEF Tables, Flagged
<1>3. \A b \in E.addresses :
        /\ b \in AddressRow
        /\ \E c \in D.addresses : /\ c.id = b.id /\ c.iface = b.iface
                                  /\ b = IF c \in A THEN SafeDeleted(c) ELSE c
  BY <1>1, <1>2, AddressTagged
<1>4. \A c \in D.addresses : \E b \in E.addresses : c.id = b.id
  BY <1>1, <1>2, AddressTagged
<1>5. \A b \in E.addresses \ D.addresses : b.ssot /\ b.status # "Active"
  BY <1>1, <1>3, AddressTagged
<1>6. E \in Database
  BY <1>1, <1>3, <1>2 DEF Tables, Database
<1>7. Below(E, n)
  BY <1>2, <1>3 DEF Good, Below, Rows
<1>8. Keyed(E.addresses) /\ Keyed(E.interfaces)
  <2>1. Keyed(E.interfaces) /\ Keyed(D.addresses)
    BY <1>2 DEF Good
  <2>2. ASSUME NEW q \in E.addresses, NEW r \in E.addresses, q.id = r.id PROVE q = r
    <3>1. PICK c \in D.addresses : c.id = q.id /\ q = IF c \in A THEN SafeDeleted(c) ELSE c
      BY <1>3
    <3>2. PICK x \in D.addresses : x.id = r.id /\ r = IF x \in A THEN SafeDeleted(x) ELSE x
      BY <1>3
    <3>3. c = x
      BY <2>1, <2>2, <3>1, <3>2 DEF Keyed
    <3> QED BY <3>1, <3>2, <3>3
  <2> QED BY <2>1, <2>2 DEF Keyed
<1>9. OwnOrGone(E)
  <2>1. ASSUME NEW d \in E.devices, NEW p \in Primaries(d), NEW b \in E.addresses, b.id = p
        PROVE  OwnedBy(E, b, d.id)
    <3>1. PICK c \in D.addresses : c.id = b.id /\ c.iface = b.iface
      BY <1>3
    <3>2. OwnedBy(D, c, d.id)
      BY <1>2, <2>1, <3>1 DEF Good, OwnOrGone
    <3> QED BY <1>2, <3>1, <3>2 DEF OwnedBy
  <2> QED BY <2>1 DEF OwnOrGone
<1>10. Retired(D.addresses, E.addresses)
  <2>1. \A b \in E.addresses : \E c \in D.addresses : c.id = b.id /\ c.iface = b.iface
    BY <1>3
  <2> QED BY <1>4, <1>5, <2>1 DEF Retired, Ids
<1> QED BY <1>2, <1>6, <1>7, <1>8, <1>9, <1>10 DEF Good

LEMMA DeleteInterfaceKeeps ==
  ASSUME TypeOK, Goods, NEW e \in diff, DeleteInterface(e)
  PROVE  Raise \/ (JobWrote /\ Done(e) /\ objects_to_delete' \in [Groups -> SUBSET Id])
<1>1. db \in Database /\ objects_to_delete \in [Groups -> SUBSET Id]
  BY DEF TypeOK
<1>2. ASSUME UNCHANGED <<db, next_id>> PROVE JobWrote
  BY <1>2, WroteNothing DEF JobWrote, Goods
<1>3. CASE TaggedDevices(e) = {}
  BY <1>1, <1>2, <1>3 DEF DeleteInterface
<1>4. ASSUME NEW d \in TaggedDevices(e), NEW i \in Called(d, e.name), Done(e), next_id' = next_id,
             LET first == FirstAddress(db, i)
                 flagged == IF i.safe THEN i ELSE [TagObject(i) EXCEPT !.safe = TRUE]
             IN  IF job.safe
                 THEN /\ db' = [db EXCEPT !.interfaces = Put(@, flagged),
                                          !.addresses = (@ \ first) \cup {SafeDeleted(a) : a \in first}]
                      /\ UNCHANGED objects_to_delete
                 ELSE /\ objects_to_delete' = [objects_to_delete EXCEPT
                           !["interface"] = @ \cup {i.id}, !["ipaddress"] = @ \cup Ids(first)]
                      /\ UNCHANGED db
      PROVE  JobWrote /\ objects_to_delete' \in [Groups -> SUBSET Id]
  <2>1. /\ i \in db.interfaces /\ i \in InterfaceRow /\ i.id < next_id
        /\ \A j \in db.interfaces : j.id = i.id => j = i
    BY DatabaseIs, GoodIs DEF Called, InterfacesOf, Goods, Keyed
  <2>2. FirstAddress(db, i) \in SUBSET db.addresses
    BY DEF FirstAddress, AddressesOf
  <2>3. CASE job.safe
    <3> DEFINE flagged == IF i.safe THEN i ELSE [TagObject(i) EXCEPT !.safe = TRUE]
               first == FirstAddress(db, i)
               W == Tables(db.devices, Put(db.interfaces, flagged), db.addresses)
    <3>1. /\ flagged \in InterfaceRow /\ flagged.id = i.id /\ flagged.device = i.device
          /\ flagged = i \/ flagged.ssot
      BY <2>1 DEF InterfaceRow, TagObject
    <3>2. db' = Tables(db.devices, Put(db.interfaces, flagged), Flagged(db.addresses, first))
          /\ UNCHANGED objects_to_delete
      BY <1>1, <1>4, <2>3 DEF Database, Tables, Flagged
    <3>3. W.addresses = db.addresses /\ W.devices = db.devices /\ W.interfaces = Put(db.interfaces, flagged)
      BY DEF Tables
    <3> HIDE DEF flagged, first
    <3>4. Good(W, next_id)
      BY <2>1, <3>1, PutInterface DEF Goods
    <3>5. db' = Tables(W.devices, W.interfaces, Flagged(W.addresses, first))
      BY <3>2, <3>3
    <3>6. first \in SUBSET W.addresses
      BY <2>2, <3>3 DEF first
    <3> HIDE DEF W
    <3>7. Good(db', next_id) /\ Retired(db.addresses, db'.addresses)
      <4>1. PICK E : E = db' /\ E = Tables(W.devices, W.interfaces, Flagged(W.addresses, first))
        BY <3>5
      <4>2. Good(E, next_id) /\ Retired(W.addresses, E.addresses)
        BY <3>4, <3>6, <4>1, SaveAddresses
      <4> QED BY <3>3, <4>1, <4>2
    <3>8. /\ db'.devices = db.devices /\ Ids(db.interfaces) \subseteq Ids(db'.interfaces)
          /\ \A j \in db'.interfaces \ db.interfaces : j.ssot
      BY <2>1, <3>1, <3>2 DEF Tables, Put, Ids
    <3>9. Wrote(db, db', next_id, job)
      <4>1. Marked(db, db')
        BY <3>7, <3>8 DEF Retired, Marked
      <4>2. Resettled(db, db')
        BY <3>7, Zenon DEF Retired, Resettled
      <4>3. Replaced(db, db', next_id)
        <5>1. \A x \in db.addresses : x.id \in Ids(db.addresses)
          BY DEF Ids
        <5> QED BY <3>7, <5>1, Zenon DEF Retired, Replaced
      <4>4. KeepsRows(db, db')
        BY <3>8 DEF KeepsRows
      <4> QED BY <4>1, <4>2, <4>3, <4>4 DEF Wrote
    <3> QED BY <1>1, <1>4, <3>2, <3>7, <3>9 DEF JobWrote, Goods
  <2>4. CASE ~ job.safe
    <3>1. i.id \in Id /\ Ids(FirstAddress(db, i)) \subseteq Id
      BY <1>1, <2>1, <2>2, DatabaseIs DEF Ids
    <3>2. UNCHANGED <<db, next_id>> /\ objects_to_delete' \in [Groups -> SUBSET Id]
      BY <1>1, <1>4, <2>4, <3>1 DEF Groups
    <3> QED BY <1>2, <3>2
  <2> QED BY <2>3, <2>4
<1> QED BY <1>3, <1>4 DEF DeleteInterface

(* Devices: a row that is saved with the primary addresses it has.         *)
LEMMA SaveDeviceWrites ==
  ASSUME Goods, NEW n \in {next_id, next_id + 1}, next_id' = n, NEW c \in DeviceRow, c.id < n,
         \A p \in Primaries(c) :
           p < n /\ \A x \in db.addresses : x.id = p => OwnedBy(db, x, c.id),
         SaveDevice(c)
  PROVE  JobWrote
<1>1. n \in Id /\ Good(db, n) /\ Good(base, n) /\ db \in Database
  BY GoodLater, IdIs DEF Goods, Good
<1>2. PICK E : E = db' /\ E = Tables(Put(db.devices, c), db.interfaces, db.addresses)
  BY <1>1, TablesIs DEF SaveDevice
<1>3. /\ Good(E, n) /\ Ids(db.devices) \subseteq Ids(E.devices)
      /\ E.interfaces = db.interfaces /\ E.addresses = db.addresses
  <2>1. PICK D : D = db
    OBVIOUS
  <2>2. Good(D, n) /\ E = Tables(Put(D.devices, c), D.interfaces, D.addresses)
    BY <1>1, <1>2, <2>1
  <2>3. ASSUME NEW p \in Primaries(c)
        PROVE  p < n /\ \A x \in D.addresses : x.id = p => OwnedBy(D, x, c.id)
    BY <2>1
  <2>4. /\ Good(E, n) /\ Ids(D.devices) \subseteq Ids(E.devices)
        /\ E.interfaces = D.interfaces /\ E.addresses = D.addresses
    BY <2>2, <2>3, PutDevice
  <2> QED BY <2>1, <2>4
<1>4. Wrote(db, E, next_id, job)
  BY <1>3, Zenon DEF Wrote, Marked, Resettled, KeepsRows, Replaced, Ids
<1> QED BY <1>1, <1>2, <1>3, <1>4 DEF JobWrote

LEMMA OwnPrimaries ==
  ASSUME Goods, NEW d \in db.devices, NEW c \in DeviceRow, c.id = d.id, Primaries(c) = Primaries(d)
  PROVE  /\ c.id < next_id
         /\ \A p \in Primaries(c) :
              p < next_id /\ \A x \in db.addresses : x.id = p => OwnedBy(db, x, c.id)
BY GoodIs DEF Goods, Good, OwnOrGone

(* What a handler that is not left by an exception leaves.                 *)
Went == /\ JobWrote /\ diff' \subseteq diff /\ pc' = "sync"
        /\ objects_to_delete' \in [Groups -> SUBSET Id]
        /\ UNCHANGED <<base, run, edits, job, src, aux_last>>

LEMMA DoneWent ==
  ASSUME TypeOK, NEW e, JobWrote, Done(e), objects_to_delete' \in [Groups -> SUBSET Id]
  PROVE  Went
BY DEF Went, Done, Synced

LEMMA SkipWent ==
  ASSUME TypeOK, Goods, NEW e, SkipDevice(e)
  PROVE  Went
<1>1. JobWrote
  BY WroteNothing DEF SkipDevice, JobWrote, Goods
<1> QED BY <1>1 DEF Went, SkipDevice, Synced, TypeOK

LEMMA CreateDeviceKeeps ==
  ASSUME TypeOK, Goods, NEW e \in diff, CreateDevice(e)
  PROVE  Raise \/ Went
<1> DEFINE found == {d \in db.devices : d.name = e.device /\ d.status = "Active"}
           new   == [id |-> next_id, name |-> e.device, status |-> "Active", ssot |-> TRUE,
                     safe |-> FALSE, primary_ip4 |-> None, primary_ip6 |-> None]
<1>1. e.device \in Devices /\ objects_to_delete \in [Groups -> SUBSET Id]
      /\ db.devices \subseteq DeviceRow /\ next_id \in Id
  BY DatabaseIs DEF TypeOK, Element
<1>2. ASSUME ~ Raise
      PROVE  /\ \E d \in found \cup (IF found = {} THEN {new} ELSE {}) : SaveDevice(TagObject(d))
             /\ next_id' = IF found = {} THEN next_id + 1 ELSE next_id
             /\ Done(e) /\ UNCHANGED objects_to_delete
  BY <1>2 DEF CreateDevice
<1>3. CASE found = {} /\ ~ Raise
  <2>1. new \in DeviceRow /\ Primaries(new) = {} /\ new.id = next_id
    BY <1>1 DEF DeviceRow, Statuses, Primaries
  <2>2. SaveDevice(TagObject(new)) /\ next_id' = next_id + 1
    BY <1>2, <1>3
  <2> HIDE DEF new
  <2>3. PICK c \in DeviceRow : c = TagObject(new) /\ c.id = next_id /\ Primaries(c) = {}
    BY <2>1, DeviceTagged
  <2>4. JobWrote
    BY <1>1, <2>2, <2>3, IdIs, SaveDeviceWrites
  <2> QED BY <1>1, <1>2, <1>3, <2>4, DoneWent
<1>4. CASE found # {} /\ ~ Raise
  <2>1. PICK d \in db.devices : SaveDevice(TagObject(d)) /\ next_id' = next_id
    BY <1>2, <1>4
  <2>2. PICK c \in DeviceRow : c = TagObject(d) /\ c.id = d.id /\ Primaries(c) = Primaries(d)
    BY <1>1, DeviceTagged
  <2>3. JobWrote
    BY <1>1, <2>1, <2>2, OwnPrimaries, SaveDeviceWrites
  <2> QED BY <1>1, <1>2, <1>4, <2>3, DoneWent
<1> QED BY <1>3, <1>4

LEMMA UpdateDeviceKeeps ==
  ASSUME TypeOK, Goods, NEW e \in diff, UpdateDevice(e)
  PROVE  Raise \/ Went
<1>1. \/ SkipDevice(e) \/ Raise
      \/ \E d \in NamedDevices(e.device) :
           SaveDevice(Recovered(d)) /\ Done(e) /\ UNCHANGED <<next_id, objects_to_delete>>
  BY DEF UpdateDevice
<1>2. ASSUME NEW d \in NamedDevices(e.device), SaveDevice(Recovered(d)), Done(e),
             UNCHANGED <<next_id, objects_to_delete>>
      PROVE  Went
  <2>1. d \in db.devices /\ d \in DeviceRow /\ objects_to_delete \in [Groups -> SUBSET Id]
    BY DatabaseIs DEF NamedDevices, TypeOK
  <2>2. PICK c \in DeviceRow : c = Recovered(d) /\ c.id = d.id /\ Primaries(c) = Primaries(d)
    BY <2>1, DeviceTagged
  <2>3. JobWrote
    BY <1>2, <2>1, <2>2, OwnPrimaries, SaveDeviceWrites
  <2> QED BY <1>2, <2>1, <2>3, DoneWent
<1> QED BY <1>1, <1>2, SkipWent

LEMMA DeleteDeviceKeeps ==
  ASSUME TypeOK, Goods, NEW e \in diff, DeleteDevice(e)
  PROVE  Raise \/ Went
<1>1. \/ SkipDevice(e) \/ Raise
      \/ \E d \in NamedDevices(e.device) :
           /\ IF job.safe THEN SaveDevice(SafeDeleted(d)) /\ UNCHANGED objects_to_delete
              ELSE /\ objects_to_delete' = [objects_to_delete EXCEPT !["device"] = @ \cup {d.id}]
                   /\ UNCHANGED db
           /\ Done(e) /\ UNCHANGED next_id
  BY DEF DeleteDevice
<1>2. ASSUME NEW d \in NamedDevices(e.device), Done(e), UNCHANGED next_id,
             IF job.safe THEN SaveDevice(SafeDeleted(d)) /\ UNCHANGED objects_to_delete
             ELSE /\ objects_to_delete' = [objects_to_delete EXCEPT !["device"] = @ \cup {d.id}]
                  /\ UNCHANGED db
      PROVE  Went
  <2>1. d \in db.devices /\ d \in DeviceRow /\ d.id \in Id
        /\ objects_to_delete \in [Groups -> SUBSET Id]
    BY DatabaseIs, DeviceIs DEF NamedDevices, TypeOK
  <2>2. objects_to_delete' \in [Groups -> SUBSET Id]
    BY <1>2, <2>1 DEF Groups
  <2>3. CASE job.safe
    <3>1. PICK c \in DeviceRow : c = SafeDeleted(d) /\ c.id = d.id /\ Primaries(c) = Primaries(d)
      BY <2>1, DeviceTagged
    <3>2. JobWrote
      BY <1>2, <2>1, <2>3, <3>1, OwnPrimaries, SaveDeviceWrites
    <3> QED BY <1>2, <2>2, <3>2, DoneWent
  <2>4. CASE ~ job.safe
    <3>1. JobWrote
      BY <1>2, <2>4, WroteNothing DEF JobWrote, Goods
    <3> QED BY <1>2, <2>2, <3>1, DoneWent
  <2> QED BY <2>3, <2>4
<1> QED BY <1>1, <1>2, SkipWent

LEMMA ElementKeeps ==
  ASSUME TypeOK, DiffOK, Goods, job \in Option, SyncElement
  PROVE  Raise \/ Went
<1>1. objects_to_delete \in [Groups -> SUBSET Id]
  BY DEF TypeOK
<1>2. ASSUME NEW e \in diff, e.name # 0, e.action = "create", CreateInterface(e)
      PROVE  Raise \/ Went
  BY <1>1, <1>2, CreateInterfaceKeeps, DoneWent
<1>3. ASSUME NEW e \in diff, e.name # 0, e.action = "update", UpdateInterface(e)
      PROVE  Raise \/ Went
  BY <1>1, <1>3, UpdateInterfaceKeeps, DoneWent
<1>4. ASSUME NEW e \in diff, DeleteInterface(e)
      PROVE  Raise \/ Went
  BY <1>4, DeleteInterfaceKeeps, DoneWent
<1> QED BY <1>2, <1>3, <1>4, CreateDeviceKeeps, UpdateDeviceKeeps, DeleteDeviceKeeps
        DEF SyncElement

-----------------------------------------------------------------------------
(* The diff                                                                *)

LEMMA DiffIs ==
  ASSUME NEW S \in Snapshots, NEW D \in Database, NEW L \in SUBSET D.devices,
         NEW e \in DiffFrom(S, D, L)
  PROVE  e \in Element /\ (e.name # 0 /\ e.action # "delete" => e.item \in Item)
<1> DEFINE items  == Source(S)
           models == UNION {LoadInterfaces(D, d) : d \in L}
           on(n, action, attrs) ==
             [device |-> n, name |-> 0, action |-> action, attrs |-> attrs, item |-> None]
           of(x, action, attrs, item) ==
             [device |-> x.device, name |-> x.name, action |-> action, attrs |-> attrs, item |-> item]
<1>1. DOMAIN S.login \subseteq Devices /\ items \subseteq Item
  BY SnapshotsAssumption
<1>2. /\ \A d \in L : d.name \in Devices
      /\ \A y \in models : y.device \in Devices /\ y.name \in Ifaces
  <2>1. D.devices \subseteq DeviceRow /\ D.interfaces \subseteq InterfaceRow
    BY DatabaseIs
  <2>2. \A d \in L : d.name \in Devices
    BY <2>1 DEF DeviceRow
  <2>3. ASSUME NEW d \in L, NEW y \in LoadInterfaces(D, d)
        PROVE  y.device \in Devices /\ y.name \in Ifaces
    BY <2>1, <2>2 DEF LoadInterfaces, InterfacesOf, InterfaceRow
  <2> QED BY <2>2, <2>3
<1>3. ASSUME NEW n \in Devices, NEW action \in {"create", "update", "delete"},
             NEW attrs \in SUBSET Attrs
      PROVE  on(n, action, attrs) \in Element /\ on(n, action, attrs).name = 0
  BY DEF Element
<1>4. ASSUME NEW x, x.device \in Devices, x.name \in Ifaces, NEW attrs \in SUBSET Attrs,
             NEW action \in {"create", "update", "delete"}, NEW item \in Item \cup {None},
             action = "delete" \/ item \in Item
      PROVE  /\ of(x, action, attrs, item) \in Element
             /\ of(x, action, attrs, item).name # 0 /\ of(x, action, attrs, item).action # "delete"
                  => of(x, action, attrs, item).item \in Item
  BY <1>4 DEF Element
<1>5. \A x \in items : x \in Item /\ x.device \in Devices /\ x.name \in Ifaces
  BY <1>1 DEF Item
<1>6. \A x, y : Changed(x, y) \in SUBSET Attrs
  BY DEF Changed, Attrs
<1>7. \/ \E n \in DOMAIN S.login : e = on(n, "create", {})
      \/ \E d \in L : e = on(d.name, "delete", {})
      \/ \E d \in L : e = on(d.name, "update", {"status"})
      \/ \E x \in items : e = of(x, "create", {}, x)
      \/ \E y \in models : e = of(y, "delete", {}, None)
      \/ \E p \in items \X models : e = of(p[1], "update", Changed(p[1], p[2]), p[1])
  BY Zenon DEF DiffFrom
<1>8. CASE \E n \in DOMAIN S.login : e = on(n, "create", {})
  BY <1>1, <1>8 DEF Element
<1>9. CASE \E d \in L : e = on(d.name, "delete", {})
  BY <1>2, <1>9 DEF Element
<1>10. CASE \E d \in L : e = on(d.name, "update", {"status"})
  <2>1. {"status"} \in SUBSET Attrs
    BY DEF Attrs
  <2> QED BY <1>2, <1>3, <1>10, <2>1
<1>11. CASE \E x \in items : e = of(x, "create", {}, x)
  BY <1>4, <1>5, <1>11
<1>12. CASE \E y \in models : e = of(y, "delete", {}, None)
  BY <1>2, <1>4, <1>12
<1>13. CASE \E p \in items \X models : e = of(p[1], "update", Changed(p[1], p[2]), p[1])
  BY <1>4, <1>5, <1>6, <1>13
<1> QED BY <1>7, <1>8, <1>9, <1>10, <1>11, <1>12, <1>13

-----------------------------------------------------------------------------
(* Users                                                                   *)

(* Rows that neither the job nor the edit has left alone go from both      *)
(* databases.                                                              *)
LEMMA SinceWithout ==
  ASSUME NEW B, NEW D, NEW o, Since(B, D, o), Keyed(B.addresses), Keyed(B.interfaces),
         NEW A \in SUBSET B.addresses, NEW I \in SUBSET B.interfaces, NEW F, NEW E,
         F.addresses = B.addresses \ A, E.addresses = D.addresses \ A,
         F.interfaces = B.interfaces \ I, E.interfaces = D.interfaces \ I,
         Ids(F.devices) = Ids(B.devices), Ids(E.devices) = Ids(D.devices)
  PROVE  Since(F, E, o)
<1>1. Marked(F, E)
  BY DEF Since, Marked
<1>2. Alone(F, E)
  BY DEF Since, Alone
<1>3. ASSUME KeepsRows(B, D) PROVE KeepsRows(F, E)
  <2>1. ASSUME NEW i \in F.interfaces PROVE \E j \in E.interfaces : j.id = i.id
    BY <1>3 DEF KeepsRows, Ids, Keyed
  <2> QED BY <1>3, <2>1 DEF KeepsRows, Ids
<1>4. ASSUME InPlace(B, D) PROVE InPlace(F, E)
  <2>1. ASSUME NEW a \in F.addresses, a.id \notin Ids(E.addresses)
        PROVE  \E b \in E.addresses : b.iface = a.iface /\ b.id \notin Ids(F.addresses)
    <3>1. a.id \notin Ids(D.addresses)
      BY <2>1 DEF Ids, Keyed
    <3>2. PICK b \in D.addresses : b.iface = a.iface /\ b.id \notin Ids(B.addresses)
      BY <1>4, <3>1 DEF InPlace
    <3>3. b \notin A /\ b.id \notin Ids(F.addresses)
      BY <3>2 DEF Ids
    <3> QED BY <3>2, <3>3
  <2> QED BY <1>4, <2>1 DEF InPlace
<1> QED BY <1>1, <1>2, <1>3, <1>4 DEF Since

(* An edit that makes E of db and F of base.                               *)
LEMMA EditKeeps ==
  ASSUME Inv, NEW E, NEW F, db' = E, base' = F, edits' = edits + 1,
         UNCHANGED <<next_id, run, pc, job, src, diff, here, objects_to_delete, aux_last>>,
         Good(E, next_id), Good(F, next_id), ~ Dangling(F), db = base => E = F,
         pc # "idle" => Since(F, E, job)
  PROVE  Inv'
<1>1. E \in Database /\ F \in Database
  BY DEF Good
<1>2. TypeOK'
  BY <1>1 DEF Inv, TypeOK
<1>3. DiffOK'
  BY DEF Inv, DiffOK
<1> QED BY <1>2, <1>3 DEF Inv

LEMMA UserDeletesAddressKeeps == Inv /\ UserDeletesAddress => Inv'
<1> SUFFICES ASSUME Inv, NEW i, NEW a \in AddressesOf(db, i) \cap AddressesOf(base, i),
                    Edit(LAMBDA D : WithoutAddresses(D, {a}))
             PROVE  Inv'
  BY DEF UserDeletesAddress
<1>1. PICK A : A = {a}
  OBVIOUS
<1>2. A \in SUBSET db.addresses /\ A \in SUBSET base.addresses
  BY <1>1 DEF AddressesOf
<1>3. PICK E : E = WithoutAddresses(db, A)
  OBVIOUS
<1>4. PICK F : F = WithoutAddresses(base, A)
  OBVIOUS
<1>5. /\ Good(E, next_id) /\ Ids(E.devices) = Ids(db.devices)
      /\ E.interfaces = db.interfaces /\ E.addresses = db.addresses \ A
  BY <1>2, <1>3, DeleteAddresses DEF Inv
<1>6. /\ Good(F, next_id) /\ Ids(F.devices) = Ids(base.devices) /\ ~ Dangling(F)
      /\ F.interfaces = base.interfaces /\ F.addresses = base.addresses \ A
  BY <1>2, <1>4, DeleteAddresses DEF Inv
<1>7. ASSUME pc # "idle" PROVE Since(F, E, job)
  <2>1. Since(base, db, job) /\ Keyed(base.addresses) /\ Keyed(base.interfaces)
    BY <1>7 DEF Inv, Good
  <2> DEFINE I == {}
  <2>2. I \in SUBSET base.interfaces
    OBVIOUS
  <2>3. F.interfaces = base.interfaces \ I /\ E.interfaces = db.interfaces \ I
    BY <1>5, <1>6, <2>2
  <2> QED BY <1>2, <1>5, <1>6, <2>1, <2>2, <2>3, SinceWithout
<1>8. db' = E /\ base' = F /\ edits' = edits + 1
      /\ UNCHANGED <<next_id, run, pc, job, src, diff, here, objects_to_delete, aux_last>>
  BY <1>1, <1>3, <1>4, Zenon DEF Edit
<1>9. db = base => E = F
  BY <1>3, <1>4
<1> QED BY <1>5, <1>6, <1>7, <1>8, <1>9, EditKeeps

LEMMA UserDeletesInterfaceKeeps == Inv /\ UserDeletesInterface => Inv'
<1> SUFFICES ASSUME Inv, NEW i \in db["interfaces"] \cap base["interfaces"],
                    AddressesOf(db, i) = AddressesOf(base, i),
                    Edit(LAMBDA D : WithoutInterfaces(D, {i}))
             PROVE  Inv'
  BY DEF UserDeletesInterface, Unlocked
<1>1. PICK I : I = {i}
  OBVIOUS
<1>2. I \in SUBSET db.interfaces /\ I \in SUBSET base.interfaces
  BY <1>1
<1>3. PICK A : A = UNION {AddressesOf(db, j) : j \in I} /\ A = UNION {AddressesOf(base, j) : j \in I}
  BY <1>1
<1>4. A \in SUBSET base.addresses
  BY <1>3 DEF AddressesOf
<1>5. PICK E : E = WithoutInterfaces(db, I)
  OBVIOUS
<1>6. PICK F : F = WithoutInterfaces(base, I)
  OBVIOUS
<1>7. /\ Good(E, next_id) /\ Ids(E.devices) = Ids(db.devices)
      /\ E.interfaces = db.interfaces \ I /\ E.addresses = db.addresses \ A
  BY <1>2, <1>3, <1>5, DeleteInterfaces DEF Inv
<1>8. /\ Good(F, next_id) /\ Ids(F.devices) = Ids(base.devices) /\ ~ Dangling(F)
      /\ F.interfaces = base.interfaces \ I /\ F.addresses = base.addresses \ A
  BY <1>2, <1>3, <1>6, DeleteInterfaces DEF Inv
<1>9. ASSUME pc # "idle" PROVE Since(F, E, job)
  <2>1. Since(base, db, job) /\ Keyed(base.addresses) /\ Keyed(base.interfaces)
    BY <1>9 DEF Inv, Good
  <2> QED BY <1>2, <1>4, <1>7, <1>8, <2>1, SinceWithout
<1>10. db' = E /\ base' = F /\ edits' = edits + 1
       /\ UNCHANGED <<next_id, run, pc, job, src, diff, here, objects_to_delete, aux_last>>
  BY <1>1, <1>5, <1>6, Zenon DEF Edit
<1>11. db = base => E = F
  BY <1>5, <1>6
<1> QED BY <1>7, <1>8, <1>9, <1>10, <1>11, EditKeeps

(* An edit of a device row that both databases have.                       *)
LEMMA DeviceEditKeeps ==
  ASSUME Inv, NEW d \in db.devices \cap base.devices, NEW c \in DeviceRow, c.id = d.id,
         \A p \in Primaries(c) :
           p \in Primaries(d) \/ \E a \in db.addresses \cap base.addresses :
                                  a.id = p /\ OwnedBy(db, a, d.id) /\ OwnedBy(base, a, d.id),
         NEW E, E = Tables(Put(db.devices, c), db.interfaces, db.addresses),
         NEW F, F = Tables(Put(base.devices, c), base.interfaces, base.addresses),
         db' = E, base' = F, edits' = edits + 1,
         UNCHANGED <<next_id, run, pc, job, src, diff, here, objects_to_delete, aux_last>>
  PROVE  Inv'
<1>1. ASSUME NEW D \in {db, base}, NEW G,
             G = Tables(Put(D.devices, c), D.interfaces, D.addresses)
      PROVE  /\ Good(G, next_id) /\ Ids(G.devices) = Ids(D.devices)
             /\ G.interfaces = D.interfaces /\ G.addresses = D.addresses
             /\ ~ Dangling(D) => ~ Dangling(G)
  <2>1. Good(D, next_id) /\ d \in D.devices /\ Keyed(D.addresses)
    BY DEF Inv, Good
  <2>2. ASSUME NEW p \in Primaries(c)
        PROVE  /\ p < next_id /\ \A x \in D.addresses : x.id = p => OwnedBy(D, x, c.id)
               /\ p \in Primaries(d) \/ p \in Ids(D.addresses)
    <3>1. CASE p \in Primaries(d)
      BY <2>1, <3>1 DEF Good, Below, OwnOrGone
    <3>2. CASE p \notin Primaries(d)
      <4>1. PICK a \in D.addresses : a.id = p /\ OwnedBy(D, a, d.id)
        BY <3>2
      <4> QED BY <2>1, <4>1, GoodIs DEF Keyed, Ids
    <3> QED BY <3>1, <3>2
  <2>3. c.id < next_id
    BY <2>1, GoodIs
  <2>4. /\ Good(G, next_id) /\ G.interfaces = D.interfaces /\ G.addresses = D.addresses
    BY <1>1, <2>1, <2>2, <2>3, PutDevice
  <2>5. G.devices = Put(D.devices, c)
    BY <1>1 DEF Tables
  <2>6. Ids(G.devices) = Ids(D.devices)
    BY <2>1, <2>5 DEF Ids, Put
  <2>7. ~ Dangling(D) => ~ Dangling(G)
    BY <2>1, <2>2, <2>4, <2>5 DEF Dangling, Put
  <2> QED BY <2>4, <2>6, <2>7
<1>2. /\ Good(E, next_id) /\ Ids(E.devices) = Ids(db.devices)
      /\ E.interfaces = db.interfaces /\ E.addresses = db.addresses
  BY <1>1
<1>3. /\ Good(F, next_id) /\ Ids(F.devices) = Ids(base.devices) /\ ~ Dangling(F)
      /\ F.interfaces = base.interfaces /\ F.addresses = base.addresses
  BY <1>1 DEF Inv
<1>4. ASSUME pc # "idle" PROVE Since(F, E, job)
  <2>1. Since(base, db, job)
    BY <1>4 DEF Inv
  <2>2. /\ Marked(F, E) <=> Marked(base, db)
        /\ Alone(F, E) <=> Alone(base, db)
        /\ KeepsRows(F, E) <=> KeepsRows(base, db)
    BY <1>2, <1>3 DEF Marked, Alone, KeepsRows
  <2>3. InPlace(F, E) <=> InPlace(base, db)
    BY <1>2, <1>3 DEF InPlace
  <2> QED BY <2>1, <2>2, <2>3 DEF Since
<1> QED BY <1>2, <1>3, <1>4, EditKeeps

LEMMA UserUntagsKeeps == Inv /\ UserUntags => Inv'
<1> SUFFICES ASSUME Inv, NEW d \in db["devices"] \cap base["devices"],
                    Edit(LAMBDA D : [D EXCEPT !.devices = Put(@, [d EXCEPT !.ssot = FALSE])])
             PROVE  Inv'
  BY DEF UserUntags, Unlocked
<1>1. d \in DeviceRow /\ db \in Database /\ base \in Database
  BY DatabaseIs DEF Inv, Good
<1> DEFINE c == [d EXCEPT !.ssot = FALSE]
<1>2. c \in DeviceRow /\ c.id = d.id /\ Primaries(c) = Primaries(d)
  BY <1>1 DEF DeviceRow, Primaries
<1>3. PICK E : E = db' /\ E = Tables(Put(db.devices, c), db.interfaces, db.addresses)
  BY <1>1, TablesIs DEF Edit
<1>4. PICK F : F = base' /\ F = Tables(Put(base.devices, c), base.interfaces, base.addresses)
  BY <1>1, TablesIs DEF Edit
<1> HIDE DEF c
<1>5. edits' = edits + 1
      /\ UNCHANGED <<next_id, run, pc, job, src, diff, here, objects_to_delete, aux_last>>
  BY DEF Edit
<1>6. d \in db.devices \cap base.devices
  OBVIOUS
<1> QED BY <1>2, <1>3, <1>4, <1>5, <1>6, DeviceEditKeeps

LEMMA UserSetsPrimaryKeeps == Inv /\ UserSetsPrimary => Inv'
<1> SUFFICES ASSUME Inv, NEW d \in db["devices"] \cap base["devices"],
                    NEW i \in InterfacesOf(db, d) \cap (db["interfaces"] \cap base["interfaces"]),
                    NEW a \in AddressesOf(db, i) \cap AddressesOf(base, i),
                    Edit(LAMBDA D : WithPrimary(D, d, a))
             PROVE  Inv'
  BY DEF UserSetsPrimary, Unlocked
<1>1. d \in DeviceRow /\ db \in Database /\ base \in Database /\ a \in AddressRow
  BY DatabaseIs DEF Inv, Good, AddressesOf
<1>2. /\ a \in db.addresses \cap base.addresses
      /\ OwnedBy(db, a, d.id) /\ OwnedBy(base, a, d.id)
  BY DEF InterfacesOf, AddressesOf, OwnedBy
<1> DEFINE c == [d EXCEPT !.primary_ip4 = IF Family[a.host] = 4 THEN a.id ELSE @,
                          !.primary_ip6 = IF Family[a.host] = 6 THEN a.id ELSE @]
<1>3. c \in DeviceRow /\ c.id = d.id /\ Primaries(c) \subseteq Primaries(d) \cup {a.id}
  BY <1>1 DEF DeviceRow, AddressRow, Primaries
<1>4. PICK E : E = db' /\ E = Tables(Put(db.devices, c), db.interfaces, db.addresses)
  BY <1>1, TablesIs DEF Edit, WithPrimary
<1>5. PICK F : F = base' /\ F = Tables(Put(base.devices, c), base.interfaces, base.addresses)
  BY <1>1, TablesIs DEF Edit, WithPrimary
<1> HIDE DEF c
<1>6. edits' = edits + 1
      /\ UNCHANGED <<next_id, run, pc, job, src, diff, here, objects_to_delete, aux_last>>
  BY DEF Edit
<1>7. ASSUME NEW p \in Primaries(c)
      PROVE  p \in Primaries(d) \/ \E x \in db.addresses \cap base.addresses :
                                     x.id = p /\ OwnedBy(db, x, d.id) /\ OwnedBy(base, x, d.id)
  BY <1>2, <1>3
<1> QED BY <1>3, <1>4, <1>5, <1>6, <1>7, DeviceEditKeeps

-----------------------------------------------------------------------------
(* Every step                                                              *)

LEMMA RaiseKeeps == Inv /\ Raise => Inv'
<1> SUFFICES ASSUME Inv, Raise PROVE Inv'
  OBVIOUS
<1>1. /\ base \in Database /\ db' = base /\ base' = base /\ pc' = "idle" /\ diff' = {}
      /\ Good(base, next_id) /\ next_id' = next_id /\ ~ Dangling(base)
  BY DEF Inv, Good, Raise, Forget
<1>2. TypeOK'
  BY <1>1 DEF Inv, TypeOK, Raise, Forget
<1> QED BY <1>1, <1>2 DEF Inv, DiffOK

LEMMA WentKeeps ==
  ASSUME Inv, Went, pc # "idle", here' \in Devices \cup {None}
  PROVE  Inv'
<1>1. /\ Since(base, db, job) /\ job \in Options /\ TypeOK /\ Good(db, next_id)
      /\ Good(base, next_id) /\ next_id \in Id
  BY DEF Inv, TypeOK
<1>2. /\ next_id' \in Id /\ Good(db', next_id') /\ Good(base, next_id')
      /\ Wrote(db, db', next_id, job)
      /\ base' = base /\ job' = job /\ src' = src /\ pc' = "sync" /\ diff' \subseteq diff
  BY DEF Went, JobWrote
<1>3. db' \in Database /\ Keyed(db'.addresses)
  BY <1>2 DEF Good
<1>4. Since(base, db', job)
  <2>1. PICK E : E = db'
    OBVIOUS
  <2>2. Keyed(E.addresses) /\ Wrote(db, E, next_id, job)
    BY <1>2, <1>3, <2>1
  <2> QED BY <1>1, <2>1, <2>2, WroteSince
<1>5. TypeOK'
  BY <1>1, <1>2, <1>3 DEF TypeOK, Went
<1>6. DiffOK'
  BY <1>2 DEF Inv, DiffOK
<1> QED BY <1>1, <1>2, <1>4, <1>5, <1>6 DEF Inv

LEMMA SinceStart == ASSUME NEW B, NEW o, Keyed(B.addresses) PROVE Since(B, B, o)
BY DEF Since, Marked, Alone, KeepsRows, InPlace, Ids, Keyed

LEMMA StartKeeps == Inv /\ StartJob => Inv'
<1> SUFFICES ASSUME Inv, StartJob PROVE Inv'
  OBVIOUS
<1>1. /\ db = base /\ job' \in Options /\ job' \in Option /\ pc' = "target"
      /\ UNCHANGED <<db, base, next_id, diff>>
  BY OptionsAssumption DEF Inv, StartJob
<1>2. Since(base, db, job')
  BY <1>1, SinceStart DEF Inv, Good
<1>3. TypeOK' /\ DiffOK'
  BY <1>1 DEF Inv, TypeOK, DiffOK, StartJob
<1> QED BY <1>1, <1>2, <1>3 DEF Inv

LEMMA LoadKeeps == Inv /\ LoadTarget => Inv'
<1> SUFFICES ASSUME Inv, LoadTarget PROVE Inv'
  OBVIOUS
<1>1. PICK L \in Loads(db, job.tagged_only) : diff' = DiffFrom(src, db, L)
  BY DEF LoadTarget
<1>2. L \in SUBSET db.devices /\ src \in Snapshots /\ db \in Database
  BY DEF Inv, TypeOK, LoadTarget, Loads
<1>3. \A e \in diff' : e \in Element /\ (e.name # 0 /\ e.action # "delete" => e.item \in Item)
  BY <1>1, <1>2, DiffIs
<1>4. pc' \in {"done", "sync"} /\ pc # "idle"
      /\ UNCHANGED <<db, base, next_id, run, edits, job, src, here, objects_to_delete, aux_last>>
  BY DEF LoadTarget
<1>5. TypeOK' /\ DiffOK'
  BY <1>3, <1>4 DEF Inv, TypeOK, DiffOK
<1> QED BY <1>4, <1>5 DEF Inv

LEMMA FewerSince ==
  ASSUME NEW B, NEW D, NEW E, NEW o, Since(B, D, o), ~ o.safe,
         E.interfaces \subseteq D.interfaces, E.addresses \subseteq D.addresses
  PROVE  Since(B, E, o)
BY DEF Since, Marked, Alone

LEMMA DeleteGroupKeeps == Inv /\ DeleteGroup => Inv'
<1> SUFFICES ASSUME Inv, DeleteGroup PROVE Inv'
  OBVIOUS
<1> DEFINE queued(R) == {r \in R : r.id \in objects_to_delete[pc]}
<1>1. /\ pc \in {"interface", "device"} /\ pc' \in {"device", "done"}
      /\ objects_to_delete' \in [Groups -> SUBSET Id]
      /\ UNCHANGED <<base, next_id, run, edits, job, src, diff, here, aux_last>>
  BY DEF DeleteGroup, Inv, TypeOK, Groups
<1>2. /\ Since(base, db, job) /\ job \in Options /\ job \in Option
      /\ Good(db, next_id)
  BY <1>1 DEF Inv, TypeOK
<1>3. \/ db' = db
      \/ ~ job.safe /\ db' = WithoutInterfaces(db, queued(db.interfaces))
      \/ ~ job.safe /\ db' = WithoutDevices(db, queued(db.devices))
  BY <1>1 DEF DeleteGroup
<1>4. queued(db.interfaces) \in SUBSET db.interfaces /\ queued(db.devices) \in SUBSET db.devices
  OBVIOUS
<1> HIDE DEF queued
<1>5. ASSUME ~ job.safe, db' = WithoutInterfaces(db, queued(db.interfaces))
      PROVE  Good(db', next_id) /\ Since(base, db', job)
  <2>1. PICK E : E = db' /\ E = WithoutInterfaces(db, queued(db.interfaces))
    BY <1>5
  <2>2. /\ Good(E, next_id) /\ E.interfaces \subseteq db.interfaces
        /\ E.addresses \subseteq db.addresses
    BY <1>2, <1>4, <2>1, DeleteInterfaces
  <2>3. Since(base, E, job)
    BY <1>2, <1>5, <2>2, FewerSince
  <2> QED BY <2>1, <2>2, <2>3
<1>6. ASSUME ~ job.safe, db' = WithoutDevices(db, queued(db.devices))
      PROVE  Good(db', next_id) /\ Since(base, db', job)
  <2>1. PICK E : E = db' /\ E = WithoutDevices(db, queued(db.devices))
    BY <1>6
  <2>2. /\ Good(E, next_id) /\ E.interfaces \subseteq db.interfaces
        /\ E.addresses \subseteq db.addresses
    BY <1>2, <1>4, <2>1, DeleteDevices
  <2>3. Since(base, E, job)
    BY <1>2, <1>6, <2>2, FewerSince
  <2> QED BY <2>1, <2>2, <2>3
<1>7. Good(db', next_id) /\ Since(base, db', job)
  BY <1>2, <1>3, <1>5, <1>6
<1>8. TypeOK'
  BY <1>1, <1>7 DEF Inv, TypeOK, Good
<1> QED BY <1>1, <1>2, <1>7, <1>8 DEF Inv, DiffOK

LEMMA FinishKeeps == Inv /\ FinishJob => Inv'
<1> SUFFICES ASSUME Inv, pc = "done", ~ Dangling(db), Forget, base' = db, Remember,
                    UNCHANGED <<db, next_id, run, edits, objects_to_delete>>
             PROVE  Inv'
  BY RaiseKeeps DEF FinishJob
<1>1. TypeOK'
  BY DEF Inv, TypeOK, Forget, Remember
<1> QED BY <1>1 DEF Inv, DiffOK, Forget

LEMMA InitInv == Init => Inv
<1> SUFFICES ASSUME Init PROVE Inv
  OBVIOUS
<1>1. /\ db \in Database /\ PrimaryIsOwn(db) /\ next_id = FirstId /\ FirstId \in Id /\ base = db
      /\ \A q, r \in Rows(db) : q.id = r.id => q = r
      /\ \A r \in Rows(db) : r.id < FirstId
  BY InitialDbsAssumption DEF Init, IsDatabase, Ids
<1>2. Keyed(db.interfaces) /\ Keyed(db.addresses)
  BY <1>1 DEF Keyed, Rows
<1>3. ASSUME NEW d \in db.devices, NEW p \in Primaries(d)
      PROVE  \E a \in db.addresses : a.id = p /\ OwnedBy(db, a, d.id)
  BY <1>1 DEF PrimaryIsOwn, InterfacesOf, AddressesOf, OwnedBy
<1>4. ~ Dangling(db)
  BY <1>3 DEF Dangling, Ids
<1>5. OwnOrGone(db)
  BY <1>2, <1>3 DEF OwnOrGone, Keyed
<1>6. Below(db, FirstId)
  BY <1>1, <1>3 DEF Below, Rows
<1>7. TypeOK /\ DiffOK
  BY <1>1 DEF Init, TypeOK, DiffOK
<1> QED BY <1>1, <1>2, <1>4, <1>5, <1>6, <1>7 DEF Init, Inv, Good

LEMMA NextInv == Inv /\ [Next]_vars => Inv'
<1> SUFFICES ASSUME Inv, [Next]_vars PROVE Inv'
  OBVIOUS
<1>1. CASE SyncElement
  <2>1. /\ pc = "sync" /\ TypeOK /\ DiffOK /\ Goods /\ job \in Option
    BY <1>1 DEF Inv, TypeOK, Goods, SyncElement
  <2>2. Raise \/ Went
    BY <1>1, <2>1, ElementKeeps
  <2>3. here' \in Devices \cup {None}
    BY <1>1, <2>1 DEF SyncElement, TypeOK, Element
  <2> QED BY <2>1, <2>2, <2>3, RaiseKeeps, WentKeeps
<1>2. CASE SyncComplete
  <2>1. TypeOK' /\ DiffOK'
    BY <1>2 DEF Inv, TypeOK, DiffOK, SyncComplete
  <2> QED BY <1>2, <2>1 DEF Inv, SyncComplete
<1>3. CASE UNCHANGED vars
  <2>1. TypeOK' /\ DiffOK'
    BY <1>3 DEF Inv, TypeOK, DiffOK, vars
  <2> QED BY <1>3, <2>1 DEF Inv, vars
<1> QED BY <1>1, <1>2, <1>3, StartKeeps, LoadKeeps, DeleteGroupKeeps, FinishKeeps,
           UserDeletesAddressKeeps, UserDeletesInterfaceKeeps, UserUntagsKeeps,
           UserSetsPrimaryKeeps DEF Next, JobStep

-----------------------------------------------------------------------------
(* Two jobs with the same snapshot. What holds while every job so far has  *)
(* completed and no user has edited anything.                              *)

Clean == edits = 0 /\ (aux_last # None \/ run = IF pc = "idle" THEN 0 ELSE 1)

NamedOnce(D) == \A i, j \in D.interfaces : i.device = j.device /\ i.name = j.name => i = j
Shaped(D, n) == Keyed(D.devices) /\ NamedOnce(D) /\ \A i \in D.interfaces : i.device < n

Named(D, n) == {d \in D.devices : d.name = n}
Sole(D, n)  == Single(Named(D, n))
(* The interfaces for the item x.                                          *)
Of(D, x)    == {i \in D.interfaces : i.name = x.name /\ \E d \in Named(D, x.device) : d.id = i.device}
IsItem(S, n, k) == \E x \in Source(S) : x.device = n /\ x.name = k
(* The first address of i has the host h.                                  *)
Leads(D, i, h) == /\ \E a \in AddressesOf(D, i) : a.host = h
                  /\ \A a \in AddressesOf(D, i) : h <= a.host
(* The device of x has the address of x for a primary one.                 *)
Reaches(D, x) ==
  \E d \in Named(D, x.device) : \E i \in InterfacesOf(D, d) : \E a \in AddressesOf(D, i) :
    i.name = x.name /\ a.host = x.ip /\ a.id \in Primaries(d)

(* What the elements are that are still to be synced.                      *)
At(n, k)    == {e \in diff : e.device = n /\ e.name = k}
Created(x)  == \E e \in At(x.device, x.name) : e.action = "create"
Pends(x, a) == \E e \in At(x.device, x.name) : e.action = "create" \/ a \in e.attrs
Expected(S, e) ==
  CASE e.name = 0 /\ e.action = "create" ->
         e.device \in DOMAIN S.login /\ \A x \in Source(S) : x.device = e.device => Created(x)
    [] e.name = 0 /\ e.action = "update" ->
         e.device \in DOMAIN S.login /\ Named(db, e.device) # {}
    [] e.name = 0 /\ e.action = "delete" -> e.device \notin DOMAIN S.login
    [] e.name # 0 /\ e.action = "delete" -> ~ IsItem(S, e.device, e.name)
    [] OTHER -> e.item \in Source(S) /\ e.item.device = e.device /\ e.item.name = e.name

(* A device and an item of the source, synced or with an element that is   *)
(* still to be synced.                                                     *)
DeviceInSync(n) ==
  At(n, 0) # {} \/ \E d \in Named(db, n) : d.status = "Active" /\ (job.tagged_only => d.ssot)
ItemInSync(x) ==
  /\ Created(x) \/ Of(db, x) # {}
  /\ ~ Pends(x, "mtu") => \A i \in Of(db, x) : (IF i.mtu = None THEN DefaultMtu ELSE i.mtu) = x.mtu
  /\ ~ Pends(x, "text") /\ IsGiven(x.text) => \A i \in Of(db, x) : i.text = x.text
  /\ ~ Pends(x, "ip") /\ x.ip # None /\ ListedOnce(src, x) =>
       \A i \in Of(db, x) : Leads(db, i, x.ip)
PrimaryInSync(x) ==
  /\ Pends(x, "primary") \/ Reaches(db, x)
  /\ \A e \in At(x.device, x.name) : "ip" \in e.attrs => "primary" \in e.attrs

(* Rows that are not in the source: those that wait for sync_complete are  *)
(* no others, and those that must go wait.                                 *)
QueueRight ==
  /\ \A g \in {"interface", "device"} : \A k \in objects_to_delete[g] : k < next_id
  /\ \A d \in db.devices : d.id \in objects_to_delete["device"] => d.name \notin DOMAIN src.login
  /\ \A i \in db.interfaces : i.id \in objects_to_delete["interface"] =>
       \A x \in Source(src) : i \notin Of(db, x)
WasTagged(n) == \A c \in Named(base, n) : c.ssot
Leaving ==
  /\ \A d \in db.devices : d.name \notin DOMAIN src.login /\ (job.tagged_only => d.ssot) =>
       At(d.name, 0) # {} \/ d.id \in objects_to_delete["device"]
  /\ \A d \in db.devices : \A i \in InterfacesOf(db, d) :
       d.name \in DOMAIN src.login /\ Sole(db, d.name) /\ WasTagged(d.name)
         /\ ~ IsItem(src, d.name, i.name) =>
       At(d.name, i.name) # {} \/ i.id \in objects_to_delete["interface"]

OneEach == \A e, f \in diff : e.device = f.device /\ e.name = f.name => e = f
Progress ==
  /\ OneEach /\ \A e \in diff : Expected(src, e)
  /\ \A n \in DOMAIN src.login : DeviceInSync(n) /\ (WasTagged(n) => \A d \in Named(db, n) : d.ssot)
  /\ \A x \in Source(src) : Sole(db, x.device) =>
       /\ ItemInSync(x)
       /\ aux_last = src /\ x.primary /\ ListedOnce(src, x) => PrimaryInSync(x)
  /\ QueueRight
  /\ ~ job.safe => Leaving

(* What a job with the snapshot S leaves for the next one.                 *)
Settled(S) == \A x \in Source(S) : x.primary /\ ListedOnce(S, x) /\ Sole(db, x.device) =>
                \A i \in Of(db, x) : Leads(db, i, x.ip)

NoneQueued(g) == objects_to_delete[g] = {}
CleanInv ==
  /\ Shaped(db, next_id)
  /\ pc \in {"idle", "target", "device", "done"} => NoneQueued("interface")
  /\ pc \in {"idle", "target", "done"} => NoneQueued("device")
  /\ pc \in {"idle", "target"} => db = base /\ (aux_last # None => Settled(aux_last))
  /\ pc \in {"interface", "device", "done"} => diff = {}
  /\ pc \in {"sync", "interface", "device", "done"} => Progress
JobsInv == (pc # "idle" => run > 0) /\ (Clean => CleanInv)

-----------------------------------------------------------------------------
(* The source                                                              *)

LEMMA SourceIs ==
  ASSUME NEW S \in Snapshots, NEW x \in Source(S)
  PROVE  /\ x \in Item /\ x.device \in DOMAIN S.login /\ x.name # 0 /\ x.mtu # None
         /\ x.primary => x.ip # None /\ x.ip = S.login[x.device]
<1>1. PICK n \in DOMAIN S.login : x \in LoadDeviceInterfaces(n, S.table, S.login[n])
  BY DEF Source
<1>2. PICK row : /\ x = ToInterface(row, S.login[n])
                 /\ \/ \E i \in RowsOf(n, S.table) : row = S.table[i]
                    \/ \E rows : row \in PseudoManagementInterface(n, rows, S.login[n])
  BY <1>1 DEF LoadDeviceInterfaces
<1>3. row.hostname = n
  BY <1>2 DEF RowsOf, PseudoManagementInterface
<1>4. x \in Item
  BY SnapshotsAssumption
<1>5. x.name # 0 /\ x.mtu # None
  BY <1>4, RanksAssumption DEF Item, Id
<1> QED BY <1>2, <1>3, <1>4, <1>5 DEF ToInterface

(* The first row of a name is the item.                                    *)
LEMMA ItemIsOne ==
  ASSUME NEW S \in Snapshots, NEW x \in Source(S), NEW y \in Source(S),
         x.device = y.device, x.name = y.name
  PROVE  x = y
<1>1. ASSUME NEW z \in Source(S)
      PROVE  z \in LoadDeviceInterfaces(z.device, S.table, S.login[z.device])
  <2>1. PICK n \in DOMAIN S.login : z \in LoadDeviceInterfaces(n, S.table, S.login[n])
    BY DEF Source
  <2>2. PICK row : /\ z = ToInterface(row, S.login[n])
                   /\ \/ \E i \in RowsOf(n, S.table) : row = S.table[i]
                      \/ \E rows : row \in PseudoManagementInterface(n, rows, S.login[n])
    BY <2>1 DEF LoadDeviceInterfaces
  <2>3. row.hostname = n
    BY <2>2 DEF RowsOf, PseudoManagementInterface
  <2> QED BY <2>1, <2>2, <2>3 DEF ToInterface
<1> DEFINE login == S.login[x.device]
           rows  == RowsOf(x.device, S.table)
           first == {i \in rows : \A j \in rows : S.table[j].intName = S.table[i].intName => i <= j}
           given == {S.table[i] : i \in rows}
           pseudo == {row \in PseudoManagementInterface(x.device, given, login) :
                        \A i \in rows : S.table[i].intName # row.intName}
<1>2. \A z \in {x, y} : \E row \in {S.table[i] : i \in first} \cup pseudo : z = ToInterface(row, login)
  BY <1>1, Zenon DEF LoadDeviceInterfaces
<1>3. \A row \in pseudo : row = [hostname |-> x.device, intName |-> PseudoName, dscr |-> PseudoText,
                                 mtu |-> None, primaryIp |-> login]
  BY DEF PseudoManagementInterface
<1>4. PICK p \in {S.table[i] : i \in first} \cup pseudo : x = ToInterface(p, login)
  BY <1>2
<1>5. PICK q \in {S.table[i] : i \in first} \cup pseudo : y = ToInterface(q, login)
  BY <1>2
<1>6. p.intName = q.intName
  BY <1>4, <1>5 DEF ToInterface
<1>7. \A i, j \in first : S.table[i].intName = S.table[j].intName => i = j
  <2>1. first \subseteq Nat
    BY SnapshotsAssumption DEF RowsOf
  <2> QED BY <2>1
<1> HIDE DEF login
<1>8. p = q
  <2>1. CASE p \in pseudo /\ q \in pseudo
    BY <1>3, <2>1
  <2>2. CASE p \notin pseudo /\ q \notin pseudo
    BY <1>6, <1>7, <2>2
  <2>3. CASE p \in pseudo /\ q \notin pseudo
    BY <1>6, <2>3
  <2>4. CASE p \notin pseudo /\ q \in pseudo
    BY <1>6, <2>4
  <2> QED BY <2>1, <2>2, <2>3, <2>4
<1> QED BY <1>4, <1>5, <1>8

LEMMA LoginIsOne ==
  ASSUME NEW S \in Snapshots, NEW x \in Source(S), NEW y \in Source(S),
         x.primary, y.primary, x.device = y.device, ListedOnce(S, x)
  PROVE  y = x
BY SourceIs DEF ListedOnce

-----------------------------------------------------------------------------
(* What SaveInterface keeps                                                *)

Same(d, c) == c.id = d.id /\ c.name = d.name /\ c.status = d.status /\ c.ssot = d.ssot
SameDevices(D, E) == /\ Keyed(E.devices)
                     /\ \A d \in D.devices : \E c \in E.devices : Same(d, c)
                     /\ \A c \in E.devices : \E d \in D.devices : Same(d, c)
Has(E, d, a) == \E c \in E.devices : Same(d, c) /\ a.id \in Primaries(c)

(* E is D with the interface i of the device d written, and a place for a  *)
(* host on it if there is one.                                             *)
Saved(D, E, d, i, host, primary) ==
  /\ SameDevices(D, E) /\ E.interfaces = Put(D.interfaces, i)
  /\ host = None => /\ E.addresses = D.addresses
                    /\ primary /\ FirstAddress(D, i) # {} => \E a \in FirstAddress(D, i) : Has(E, d, a)
  /\ host # None => \E a \in AddressRow :
       /\ a.iface = i.id /\ a.host = host
       /\ E.addresses = Put({b \in D.addresses : b.iface # i.id}, a)
       /\ \A b \in D.addresses : b.id = a.id /\ b.iface # i.id => b.host = host
       /\ primary => Has(E, d, a)
  /\ \A c \in D.devices, b \in D.addresses :
       b.id \in Primaries(c) /\ (b.iface # i.id \/ host = None) /\ (~ primary \/ c.id # d.id) => Has(E, c, b)

LEMMA PrimarySaved ==
  ASSUME NEW D \in Database, Keyed(D.devices), NEW F \in Database, SameDevices(D, F),
         NEW d \in D.devices, NEW a \in AddressRow, NEW E, E = WithPrimary(F, d, a)
  PROVE  /\ SameDevices(D, E) /\ E.interfaces = F.interfaces /\ E.addresses = F.addresses
         /\ Has(E, d, a) /\ \A f \in F.devices : f.id # d.id => f \in E.devices
<1> DEFINE c == [d EXCEPT !.primary_ip4 = IF Family[a.host] = 4 THEN a.id ELSE @,
                          !.primary_ip6 = IF Family[a.host] = 6 THEN a.id ELSE @]
<1>1. d \in DeviceRow /\ a.host \in Hosts /\ a.id \in Id
  BY DatabaseIs DEF AddressRow
<1>2. Family[a.host] \in {4, 6} /\ a.id # None
  BY <1>1, RanksAssumption, IdIs
<1>3. Same(d, c) /\ a.id \in Primaries(c)
  BY <1>1, <1>2 DEF DeviceRow, Same, Primaries
<1>4. WithPrimary(F, d, a) = [F EXCEPT !.devices = Put(@, c)]
  BY Zenon DEF WithPrimary
<1> HIDE DEF c
<1>5. E = Tables(Put(F.devices, c), F.interfaces, F.addresses)
  BY <1>4, TablesIs, Zenon
<1>6. E.devices = Put(F.devices, c) /\ E.interfaces = F.interfaces /\ E.addresses = F.addresses
  BY <1>5 DEF Tables
<1>7. SameDevices(D, E)
  <2>1. ASSUME NEW b \in D.devices PROVE \E e \in E.devices : Same(b, e)
    <3>1. CASE b.id = d.id
      BY <1>3, <1>6, <3>1 DEF Keyed, Put
    <3>2. CASE b.id # d.id
      BY <1>3, <1>6, <3>2 DEF Put, SameDevices, Same
    <3> QED BY <3>1, <3>2
  <2>2. ASSUME NEW e \in E.devices PROVE \E b \in D.devices : Same(b, e)
    BY <1>3, <1>6 DEF Put, SameDevices
  <2>3. Keyed(E.devices)
    BY <1>6 DEF Put, SameDevices, Keyed
  <2> QED BY <2>1, <2>2, <2>3 DEF SameDevices
<1>8. Has(E, d, a)
  BY <1>3, <1>6 DEF Has, Put
<1>9. \A f \in F.devices : f.id # d.id => f \in E.devices
  BY <1>3, <1>6 DEF Put, Same
<1> QED BY <1>6, <1>7, <1>8, <1>9

LEMMA ClearedIs ==
  ASSUME NEW W, NEW n, Good(W, n), Keyed(W.devices), NEW i
  PROVE  LET F == Cleared(W, i)
         IN  /\ F \in Database /\ SameDevices(W, F) /\ F.interfaces = W.interfaces
             /\ F.addresses = {b \in W.addresses : b.iface # i.id}
             /\ \A c \in W.devices, b \in F.addresses : b.id \in Primaries(c) => Has(F, c, b)
<1> DEFINE A == AddressesOf(W, i)
           F == Cleared(W, i)
<1>1. A \in SUBSET W.addresses /\ F = WithoutAddresses(W, A)
  BY DEF AddressesOf, Cleared
<1>2. /\ W \in Database /\ F \in Database /\ F.interfaces = W.interfaces
      /\ F.addresses = W.addresses \ A /\ Keyed(W.addresses)
  BY <1>1, DeleteAddresses DEF Good
<1>3. F.devices = {Unlinked(d, Ids(A)) : d \in W.devices}
  BY <1>1, <1>2 DEF WithoutAddresses, Database
<1>4. ASSUME NEW d \in W.devices
      PROVE  Same(d, Unlinked(d, Ids(A))) /\ Primaries(Unlinked(d, Ids(A))) = Primaries(d) \ Ids(A)
  <2>1. d \in DeviceRow
    BY <1>2, DatabaseIs
  <2>2. Same(d, Unlinked(d, Ids(A)))
    BY <2>1 DEF Same, Unlinked, DeviceRow
  <2> QED BY <2>1, <2>2, Unlinking
<1>5. F.addresses = {b \in W.addresses : b.iface # i.id}
  BY <1>2 DEF AddressesOf
<1>6. \A b \in F.addresses : b.id \notin Ids(A)
  BY <1>1, <1>2 DEF Ids, Keyed
<1> HIDE DEF A, F
<1>7. SameDevices(W, F)
  BY <1>3, <1>4 DEF SameDevices, Same, Keyed
<1>8. ASSUME NEW c \in W.devices, NEW b \in F.addresses, b.id \in Primaries(c) PROVE Has(F, c, b)
  BY <1>3, <1>4, <1>6, <1>8 DEF Has
<1> QED BY <1>2, <1>5, <1>7, <1>8 DEF F

LEMMA CreatedHost ==
  ASSUME NEW F \in Database, NEW h \in Hosts, NEW i \in InterfaceRow, NEW n \in Id,
         Keyed(F.addresses), \A b \in F.addresses : b.id # n,
         NEW a, a = CreatedIp(F, h, i, n)
  PROVE  /\ a \in AddressRow /\ a.iface = i.id /\ a.host = h
         /\ \A b \in F.addresses : b.id = a.id => b.host = h
<1>1. FoundIps(F, h) \subseteq F.addresses /\ \A b \in FoundIps(F, h) : b.host = h
  BY DEF FoundIps
<1>2. F.addresses \subseteq AddressRow
  BY DatabaseIs
<1>3. CASE FoundIps(F, h) = {}
  BY <1>3, CreatedIpIs DEF CreatedIp
<1>4. CASE FoundIps(F, h) # {}
  <2>1. PICK c \in FoundIps(F, h) : a = [TagObject(c) EXCEPT !.iface = i.id]
    BY <1>4, AnyIsIn DEF CreatedIp
  <2>2. c \in AddressRow /\ c \in F.addresses /\ c.host = h
    BY <1>1, <1>2
  <2>3. a.id = c.id /\ a.host = h
    BY <2>1, <2>2 DEF TagObject, AddressRow
  <2>4. a \in AddressRow /\ a.iface = i.id
    BY CreatedIpIs
  <2> QED BY <2>2, <2>3, <2>4 DEF Keyed
<1> QED BY <1>3, <1>4

LEMMA SaveInterfaceSaves ==
  ASSUME Goods, Keyed(db.devices), NEW e, NEW d \in db.devices, NEW i \in InterfaceRow,
         NEW n \in {next_id, next_id + 1}, i.id < n, i.device = d.id,
         \A j \in db.interfaces : j.id = i.id => j.device = i.device,
         NEW host \in Hosts \cup {None}, NEW primary \in BOOLEAN,
         SaveInterface(e, d, i, n, host, primary)
  PROVE  Raise \/ (/\ Saved(db, db', d, i, host, primary) /\ Done(e) /\ UNCHANGED objects_to_delete
                   /\ next_id' \in {n, n + 1})
<1> DEFINE W == Tables(db.devices, Put(db.interfaces, i), db.addresses)
           F == Cleared(W, i)
           a == Given(W, i, host, n)
           G == Added(W, i, host, n)
<1>1. /\ next_id \in Id /\ n \in Id /\ db \in Database /\ d \in DeviceRow
      /\ \A k \in Id : k < next_id => k < n
  BY IdIs, DatabaseIs DEF Goods, Good, Id
<1>2. Good(db, n)
  BY <1>1, GoodLater DEF Goods
<1>3. Good(W, n)
  BY <1>2, PutInterface
<1>4. W = [db EXCEPT !.interfaces = Put(@, i)]
  BY <1>1, TablesIs
<1>5. /\ W.devices = db.devices /\ W.addresses = db.addresses
      /\ W.interfaces = Put(db.interfaces, i)
  BY DEF Tables
<1>6. W \in Database /\ SameDevices(db, W) /\ FirstAddress(W, i) = FirstAddress(db, i)
  BY <1>3, <1>5 DEF Good, SameDevices, Same, FirstAddress, AddressesOf, Keyed
<1>7. SaveInterface(e, d, i, n, host, primary) <=>
        IF host # None /\ IpRefused(F, host, i) THEN Raise
        ELSE /\ db' = CASE host # None /\ primary -> WithPrimary(
                             [F EXCEPT !.addresses = Put(@, a)], d, a)
                        [] host # None /\ ~ primary -> [F EXCEPT !.addresses = Put(@, a)]
                        [] host = None /\ primary /\ FirstAddress(W, i) # {} ->
                             WithPrimary(W, d, CHOOSE x \in FirstAddress(W, i) : TRUE)
                        [] OTHER -> W
             /\ next_id' = IF host = None THEN n ELSE n + 1
             /\ Done(e) /\ UNCHANGED objects_to_delete
  BY <1>4, Zenon DEF SaveInterface, Cleared, Given
<1> HIDE DEF W
<1>8. \A c \in db.devices : \A b : b.id \in Primaries(c) => Has(W, c, b)
  BY <1>5 DEF Has, Same
<1>9. ASSUME host = None PROVE Saved(db, db', d, i, host, primary)
  <2>1. db' = IF primary /\ FirstAddress(W, i) # {}
              THEN WithPrimary(W, d, CHOOSE x \in FirstAddress(W, i) : TRUE) ELSE W
    BY <1>7, <1>9
  <2>2. CASE ~ (primary /\ FirstAddress(W, i) # {})
    <3>1. db' = W
      BY <2>1, <2>2
    <3>2. CASE ~ primary
      BY <1>5, <1>6, <1>8, <1>9, <3>1, <3>2 DEF Saved
    <3>3. ASSUME primary
          PROVE  \A c \in db.devices, b \in db.addresses : b.id \in Primaries(c) => Has(db', c, b)
      BY <1>8, <3>1
    <3> QED BY <1>5, <1>6, <1>9, <2>2, <3>1, <3>2, <3>3 DEF Saved
  <2>3. CASE primary /\ FirstAddress(W, i) # {}
    <3>1. PICK x \in FirstAddress(W, i) : db' = WithPrimary(W, d, x)
      BY <2>1, <2>3, AnyIsIn
    <3>2. x \in AddressRow
      BY <1>6, <3>1, DatabaseIs DEF FirstAddress, AddressesOf
    <3>3. PICK E : E = db' /\ E = WithPrimary(W, d, x)
      BY <3>1
    <3>4. /\ SameDevices(db, E) /\ E.interfaces = W.interfaces /\ E.addresses = W.addresses
          /\ Has(E, d, x) /\ \A f \in W.devices : f.id # d.id => f \in E.devices
      BY <1>1, <1>6, <3>2, <3>3, PrimarySaved
    <3>5. \A c \in db.devices, b \in db.addresses :
            b.id \in Primaries(c) /\ c.id # d.id => Has(E, c, b)
      BY <1>5, <3>4 DEF Has, Same
    <3> QED BY <1>5, <1>6, <1>9, <2>3, <3>1, <3>3, <3>4, <3>5 DEF Saved
  <2> QED BY <2>2, <2>3
<1>10. ASSUME host # None, ~ IpRefused(F, host, i)
       PROVE  Saved(db, db', d, i, host, primary)
  <2>1. /\ F \in Database /\ SameDevices(W, F) /\ F.interfaces = W.interfaces
        /\ F.addresses = {b \in W.addresses : b.iface # i.id}
        /\ \A c \in W.devices, b \in F.addresses : b.id \in Primaries(c) => Has(F, c, b)
    BY <1>3, <1>5, ClearedIs
  <2>2. /\ host \in Hosts /\ Keyed(F.addresses) /\ \A b \in F.addresses : b.id # n
    BY <1>1, <1>3, <1>10, <2>1, GoodIs DEF Keyed, Id
  <2>3. a = CreatedIp(F, host, i, n)
    BY DEF Given
  <2>5. G = [F EXCEPT !.addresses = Put(@, a)]
    BY <2>1, TablesIs, Zenon DEF Added
  <2>6. db' = IF primary THEN WithPrimary(G, d, a) ELSE G
    BY <1>7, <1>10, <2>5
  <2>7. /\ G.devices = F.devices /\ G.interfaces = F.interfaces
        /\ G.addresses = Put(F.addresses, a)
    BY DEF Added, Tables
  <2> HIDE DEF F, a, G
  <2>4. /\ a \in AddressRow /\ a.iface = i.id /\ a.host = host
        /\ \A b \in F.addresses : b.id = a.id => b.host = host
    <3>1. F \in Database /\ host \in Hosts /\ i \in InterfaceRow /\ n \in Id /\ Keyed(F.addresses)
      BY <1>1, <2>1, <2>2
    <3>2. \A b \in F.addresses : b.id # n
      BY <2>2
    <3>3. PICK c : c = CreatedIp(F, host, i, n)
      OBVIOUS
    <3>4. /\ c \in AddressRow /\ c.iface = i.id /\ c.host = host
          /\ \A b \in F.addresses : b.id = c.id => b.host = host
      BY <3>1, <3>2, <3>3, CreatedHost
    <3> QED BY <2>3, <3>3, <3>4
  <2>8. G \in Database
    BY <2>1, <2>4, <2>5 DEF Database, Put
  <2>9. SameDevices(db, G)
    BY <1>5, <2>1, <2>7 DEF SameDevices, Same
  <2>10. /\ \A b \in db.addresses : b.id = a.id /\ b.iface # i.id => b.host = host
         /\ G.addresses = Put({b \in db.addresses : b.iface # i.id}, a)
         /\ \A c \in db.devices, b \in db.addresses :
              b.id \in Primaries(c) /\ b.iface # i.id => Has(G, c, b)
    BY <1>5, <2>1, <2>4, <2>7 DEF Has
  <2>11. CASE ~ primary
    <3>1. db' = G
      BY <2>6, <2>11
    <3> QED BY <1>5, <1>10, <2>1, <2>4, <2>7, <2>9, <2>10, <2>11, <3>1 DEF Saved
  <2>12. CASE primary
    <3>1. PICK E : E = db' /\ E = WithPrimary(G, d, a)
      BY <2>6, <2>12
    <3>2. /\ SameDevices(db, E) /\ E.interfaces = G.interfaces /\ E.addresses = G.addresses
          /\ Has(E, d, a) /\ \A f \in G.devices : f.id # d.id => f \in E.devices
      BY <1>1, <2>4, <2>8, <2>9, <3>1, PrimarySaved
    <3>3. \A c \in db.devices, b \in db.addresses :
            b.id \in Primaries(c) /\ b.iface # i.id /\ c.id # d.id => Has(E, c, b)
      BY <2>10, <3>2 DEF Has, Same
    <3> QED BY <1>5, <1>10, <2>1, <2>4, <2>7, <2>10, <2>12, <3>1, <3>2, <3>3 DEF Saved
  <2> QED BY <2>11, <2>12
<1>11. ASSUME ~ Raise
       PROVE  ~ (host # None /\ IpRefused(F, host, i)) /\ Done(e) /\ UNCHANGED objects_to_delete
              /\ next_id' \in {n, n + 1}
  BY <1>7, <1>11
<1> QED BY <1>9, <1>10, <1>11

-----------------------------------------------------------------------------
(* What a step keeps of the rows it does not write                         *)

Login == DOMAIN src.login

(* The device d as c.                                                      *)
Kept(d, c) == /\ c.id = d.id /\ c.name = d.name /\ (d.ssot => c.ssot)
              /\ d.name \in Login /\ d.status = "Active" => c.status = "Active"
              /\ c.ssot => d.ssot \/ d.name \in Login \/ job.safe

(* E is D with some devices and interfaces written anew, a device and an   *)
(* interface of the source added, or others deleted.                       *)
Moved(D, E, n) ==
  /\ \A d \in D.devices : d.name \in Login => \E c \in E.devices : Kept(d, c)
  /\ \A c \in E.devices : \/ \E d \in D.devices : Kept(d, c)
                          \/ c.id = n /\ c.name \in Login /\ c.ssot
  /\ \A i \in E.interfaces :
       \/ \E j \in D.interfaces : i.id = j.id /\ i.device = j.device /\ i.name = j.name
       \/ i.id >= n /\ \E d \in D.devices : d.id = i.device /\ IsItem(src, d.name, i.name)

(* The item x has in E what it has in D.                                   *)
Spares(D, E, x) ==
  /\ Of(E, x) = Of(D, x)
  /\ x.ip # None /\ ListedOnce(src, x) =>
       \A i \in Of(D, x) : Leads(D, i, x.ip) => Leads(E, i, x.ip)
  /\ x.primary /\ ListedOnce(src, x) /\ Reaches(D, x) => Reaches(E, x)

ItemDone(x) == /\ ItemInSync(x)
               /\ aux_last = src /\ x.primary /\ ListedOnce(src, x) => PrimaryInSync(x)

LEMMA MovedSole ==
  ASSUME NEW D, NEW E, NEW n, Moved(D, E, n), Keyed(D.devices), NEW m \in Login, Sole(E, m)
  PROVE  Sole(D, m)
<1> SUFFICES ASSUME NEW c \in Named(D, m), NEW d \in Named(D, m) PROVE c = d
  BY DEF Sole, Single
<1>1. PICK p \in E.devices : p.id = c.id /\ p.name = m
  BY DEF Moved, Kept, Named
<1>2. PICK q \in E.devices : q.id = d.id /\ q.name = m
  BY DEF Moved, Kept, Named
<1>3. p = q
  BY <1>1, <1>2 DEF Sole, Single, Named
<1> QED BY <1>1, <1>2, <1>3 DEF Keyed, Named

LEMMA SparedDone ==
  ASSUME NEW x, Spares(db, db', x), UNCHANGED <<src, aux_last>>,
         At(x.device, x.name)' = At(x.device, x.name), ItemDone(x)
  PROVE  ItemDone(x)'
<1>1. Created(x)' = Created(x) /\ \A a : Pends(x, a)' = Pends(x, a)
  BY DEF Created, Pends
<1>2. ItemInSync(x)'
  BY <1>1 DEF ItemDone, ItemInSync, Spares
<1>3. aux_last = src /\ x.primary /\ ListedOnce(src, x) => PrimaryInSync(x)'
  BY <1>1 DEF ItemDone, PrimaryInSync, Spares
<1> QED BY <1>2, <1>3 DEF ItemDone

(* An item for which there is no device yet, or that is to be created.     *)
LEMMA CreatedDone ==
  ASSUME NEW x, UNCHANGED <<src, aux_last>>, At(x.device, x.name)' = At(x.device, x.name),
         ItemDone(x), Created(x)
  PROVE  ItemDone(x)'
<1>1. Created(x)' /\ \A a : Pends(x, a)'
  BY DEF Created, Pends
<1> QED BY <1>1 DEF ItemDone, ItemInSync, PrimaryInSync

LEMMA MovedDevice ==
  ASSUME NEW D, NEW E, NEW n \in Id, Moved(D, E, n), Good(D, n), Shaped(D, n),
         NEW c \in E.devices, NEW i \in D.interfaces, i.device = c.id
  PROVE  \E d \in D.devices : Kept(d, c)
<1>1. i.device \in Id /\ i.device < n
  BY DatabaseIs DEF Good, Shaped
<1> QED BY <1>1 DEF Moved, Id

LEMMA QueueKeeps ==
  ASSUME NEW n, n = next_id, n \in Id, Moved(db, db', n), Good(db, n), Shaped(db, n), QueueRight,
         next_id' \in Id, n <= next_id', src' = src,
         objects_to_delete \in [Groups -> SUBSET Id], objects_to_delete' \in [Groups -> SUBSET Id],
         \A k \in objects_to_delete'["device"] \ objects_to_delete["device"] :
           k < n /\ \A d \in db'.devices : d.id = k => d.name \notin Login,
         \A k \in objects_to_delete'["interface"] \ objects_to_delete["interface"] :
           k < n /\ \A i \in db'.interfaces : i.id = k => \A x \in Source(src) : i \notin Of(db', x)
  PROVE  QueueRight'
<1> DEFINE Q == objects_to_delete
<1>1. \A g \in {"interface", "device"} : Q[g] \subseteq Id /\ Q'[g] \subseteq Id
  BY DEF Groups
<1>2. \A g \in {"interface", "device"} : \A k \in Q'[g] : k < n
  BY DEF QueueRight
<1>3. \A g \in {"interface", "device"} : \A k \in Q'[g] : k < next_id'
  BY <1>1, <1>2 DEF Id
<1>4. ASSUME NEW d \in db'.devices, d.id \in Q'["device"] PROVE d.name \notin DOMAIN src.login
  <2>1. CASE d.id \notin Q["device"]
    BY <1>4, <2>1 DEF Login
  <2>2. CASE d.id \in Q["device"]
    <3>1. d.id \in Id /\ d.id < n
      BY <1>1, <1>2, <1>4
    <3>2. PICK c \in db.devices : Kept(c, d)
      BY <3>1 DEF Moved, Id
    <3> QED BY <2>2, <3>2 DEF QueueRight, Kept
  <2> QED BY <2>1, <2>2
<1>5. ASSUME NEW i \in db'.interfaces, i.id \in Q'["interface"], NEW x \in Source(src)
      PROVE  i \notin Of(db', x)
  <2>1. CASE i.id \notin Q["interface"]
    BY <1>5, <2>1
  <2>2. CASE i.id \in Q["interface"]
    <3>1. i.id \in Id /\ i.id < n
      BY <1>1, <1>2, <1>5
    <3>2. PICK j \in db.interfaces : i.id = j.id /\ i.device = j.device /\ i.name = j.name
      BY <3>1 DEF Moved, Id
    <3>3. SUFFICES ASSUME i \in Of(db', x) PROVE j \in Of(db, x)
      BY <2>2, <3>2 DEF QueueRight
    <3>4. PICK c \in db'.devices : c.name = x.device /\ c.id = i.device
      BY <3>3 DEF Of, Named
    <3>5. \E d \in db.devices : Kept(d, c)
      BY <3>2, <3>4, MovedDevice
    <3> QED BY <3>2, <3>3, <3>4, <3>5 DEF Of, Named, Kept
  <2> QED BY <2>1, <2>2
<1> QED BY <1>3, <1>4, <1>5 DEF QueueRight

LEMMA LeavingDevice ==
  ASSUME NEW D, NEW n, D = db, Moved(D, db', n), Leaving,
         NEW c \in db'.devices, c.name \notin Login, job.tagged_only => c.ssot, ~ job.safe
  PROVE  At(c.name, 0) # {} \/ c.id \in objects_to_delete["device"]
<1>1. PICK d \in db.devices : Kept(d, c)
  BY DEF Moved
<1> QED BY <1>1 DEF Leaving, Login, Kept

LEMMA LeavingInterface ==
  ASSUME NEW n, n = next_id, n \in Id, Moved(db, db', n), Good(db, n), Shaped(db, n), Leaving,
         NEW c \in db'.devices, NEW i \in InterfacesOf(db', c), c.name \in Login,
         Sole(db', c.name), WasTagged(c.name), ~ IsItem(src, c.name, i.name)
  PROVE  /\ At(c.name, i.name) # {} \/ i.id \in objects_to_delete["interface"]
         /\ \E j \in db.interfaces : i.id = j.id /\ i.device = j.device /\ i.name = j.name
<1>1. i \in db'.interfaces /\ i.device = c.id
  BY DEF InterfacesOf
<1>2. PICK j \in db.interfaces : i.id = j.id /\ i.device = j.device /\ i.name = j.name
  <2> SUFFICES ASSUME NEW d \in db.devices, d.id = i.device, IsItem(src, d.name, i.name) PROVE FALSE
    BY <1>1 DEF Moved
  <2>1. d.id \in Id /\ d.id < n
    BY DatabaseIs, DeviceIs, GoodIs
  <2>2. PICK b \in db.devices : Kept(b, c)
    BY <1>1, <2>1 DEF Moved, Id
  <2>3. b = d
    BY <1>1, <2>2 DEF Kept, Shaped, Keyed
  <2> QED BY <2>2, <2>3 DEF Kept
<1>3. PICK d \in db.devices : Kept(d, c)
  BY <1>1, <1>2, MovedDevice
<1>4. d.id = c.id /\ d.name = c.name /\ Sole(db, d.name)
  BY <1>3, MovedSole DEF Kept, Shaped
<1>5. j \in InterfacesOf(db, d)
  BY <1>1, <1>2, <1>4 DEF InterfacesOf
<1> QED BY <1>2, <1>4, <1>5 DEF Leaving, Login

-----------------------------------------------------------------------------
(* The elements that are still to be synced                                *)

(* The first element g is synced: it, or all the elements of its device,   *)
(* which there is not.                                                     *)
Left(g) == \/ diff' = diff \ {g}
           \/ /\ diff' = {f \in diff : f.device # g.device}
              /\ g.device \notin Login /\ Named(db', g.device) = {}
SyncsFirst(g) ==
  /\ g \in diff /\ MayBeNext(g, diff) /\ Left(g) /\ pc = "sync" /\ pc' = "sync"
  /\ UNCHANGED <<base, run, edits, job, src, aux_last>>

LEMMA ElementIs ==
  ASSUME NEW e \in Element
  PROVE  e.device \in Nat /\ e.name \in Nat /\ e.action \in {"create", "update", "delete"}
<1>1. e.device \in Devices /\ e.name \in Ifaces \cup {0} /\ e.action \in {"create", "update", "delete"}
  BY DEF Element
<1>2. Devices \subseteq Nat /\ Ifaces \subseteq Nat
  BY RanksAssumption, Zenon DEF Id
<1>3. e.device \in Nat
  BY <1>1, <1>2, Zenon
<1>4. e.name \in Nat
  <2>1. CASE e.name \in Ifaces
    BY <1>2, <2>1, Zenon
  <2>2. CASE e.name = 0
    BY <2>2
  <2> QED BY <1>1, <2>1, <2>2
<1> QED BY <1>1, <1>3, <1>4

LEMMA FirstIs ==
  ASSUME OneEach, NEW g \in diff
  PROVE  At(g.device, g.name) = {g}
BY DEF At, OneEach

LEMMA LeftAt ==
  ASSUME NEW g, SyncsFirst(g), NEW m, NEW k, m # g.device \/ k # g.name,
         m = g.device => m \in Login \/ Named(db', m) # {}
  PROVE  At(m, k)' = At(m, k)
BY DEF SyncsFirst, Left, At

LEMMA LeftOwn ==
  ASSUME OneEach, NEW g, SyncsFirst(g)
  PROVE  At(g.device, g.name)' = {}
BY FirstIs DEF SyncsFirst, Left, At

LEMMA ExpectedKeeps ==
  ASSUME OneEach, NEW g, SyncsFirst(g), NEW n, Moved(db, db', n),
         src \in Snapshots, \A e \in diff : Expected(src, e)
  PROVE  (\A e \in diff : Expected(src, e))'
<1> SUFFICES ASSUME NEW e \in diff' PROVE Expected(src, e)'
  OBVIOUS
<1>1. e \in diff /\ e # g /\ Expected(src, e) /\ src' = src
  BY DEF SyncsFirst, Left
<1>2. CASE e.name = 0 /\ e.action = "create"
  <2>1. e.device \in DOMAIN src.login /\ \A x \in Source(src) : x.device = e.device => Created(x)
    BY <1>1, <1>2 DEF Expected
  <2>2. e.device # g.device
    <3>1. e.device = g.device => ~ Precedes(e, g)
      BY <1>1 DEF SyncsFirst, MayBeNext
    <3>2. e.device = g.device => g.name = 0
      BY <1>2, <3>1 DEF Precedes
    <3> QED BY <1>1, <1>2, <3>2 DEF OneEach, SyncsFirst
  <2>3. ASSUME NEW x \in Source(src), x.device = e.device PROVE Created(x)'
    <3>1. At(x.device, x.name)' = At(x.device, x.name)
      BY <2>2, <2>3, LeftAt
    <3> QED BY <2>1, <2>3, <3>1 DEF Created
  <2> QED BY <1>1, <1>2, <2>1, <2>3 DEF Expected
<1>3. CASE e.name = 0 /\ e.action = "update"
  <2>1. e.device \in DOMAIN src.login /\ Named(db, e.device) # {}
    BY <1>1, <1>3 DEF Expected
  <2>2. Named(db', e.device) # {}
    BY <2>1 DEF Moved, Kept, Named, Login
  <2> QED BY <1>1, <1>3, <2>1, <2>2 DEF Expected
<1>4. CASE ~ (e.name = 0 /\ e.action \in {"create", "update"})
  BY <1>1, <1>4 DEF Expected
<1> QED BY <1>2, <1>3, <1>4

(* What the handler of the element g has done with what g is about.        *)
Own(g) ==
  /\ g.name = 0 /\ g.device \in Login =>
       \E d \in Named(db', g.device) : d.status = "Active" /\ (job.tagged_only => d.ssot)
  /\ g.name = 0 /\ g.device \notin Login /\ ~ job.safe =>
       \A d \in Named(db', g.device) : d.id \in objects_to_delete'["device"]
  /\ g.name # 0 /\ g.action = "delete" /\ ~ job.safe =>
       \A d \in Named(db, g.device) : \A i \in InterfacesOf(db, d) :
         d.name \in Login /\ Sole(db, d.name) /\ i.name = g.name
           /\ (\A c \in Named(db, d.name) : c.ssot) => i.id \in objects_to_delete'["interface"]
  /\ \A x \in Source(src) : Sole(db', x.device) =>
       \/ Spares(db, db', x) /\ (x.device # g.device \/ x.name # g.name)
       \/ g.name = 0 /\ g.action = "create" /\ g.device = x.device
       \/ ItemDone(x)'

LEMMA ElementProgress ==
  ASSUME TypeOK, Good(db, next_id), Shaped(db, next_id), Progress, NEW g, SyncsFirst(g),
         Moved(db, db', next_id), QueueRight', Own(g),
         \A k \in {"interface", "device"} : objects_to_delete[k] \subseteq objects_to_delete'[k]
  PROVE  Progress'
<1>1. /\ src \in Snapshots /\ src' = src /\ job' = job /\ base' = base /\ aux_last' = aux_last
      /\ diff \subseteq Element /\ next_id \in Id
  BY DEF TypeOK, SyncsFirst
<1>2. (\A e \in diff : Expected(src, e))'
  BY <1>1, ExpectedKeeps DEF Progress
<1>0. OneEach'
  BY DEF OneEach, Progress, SyncsFirst, Left
<1>3. ASSUME NEW n \in DOMAIN src.login PROVE DeviceInSync(n)'
  <2>1. CASE n = g.device /\ g.name = 0
    BY <1>1, <2>1 DEF Own, Login, DeviceInSync
  <2>2. CASE n # g.device \/ g.name # 0
    <3>1. At(n, 0)' = At(n, 0)
      BY <2>2, LeftAt DEF Login
    <3>2. DeviceInSync(n)
      BY DEF Progress
    <3>3. ASSUME NEW d \in Named(db, n), d.status = "Active", job.tagged_only => d.ssot
          PROVE  \E c \in Named(db', n) : c.status = "Active" /\ (job.tagged_only => c.ssot)
      BY <3>3 DEF Moved, Kept, Login, Named
    <3> QED BY <1>1, <3>1, <3>2, <3>3 DEF DeviceInSync
  <2> QED BY <2>1, <2>2
<1>4. ASSUME NEW n \in DOMAIN src.login, WasTagged(n), NEW c \in Named(db', n) PROVE c.ssot
  <2>1. CASE \E d \in db.devices : Kept(d, c)
    BY <1>4, <2>1 DEF Progress, Kept, Named
  <2>2. CASE c.ssot
    BY <2>2
  <2> QED BY <2>1, <2>2 DEF Moved, Named
<1>5. \A n : WasTagged(n)' = WasTagged(n)
  BY <1>1 DEF WasTagged
<1>6. ASSUME NEW x \in Source(src), Sole(db', x.device) PROVE ItemDone(x)'
  <2>1. x.device \in Login /\ x.name # 0
    BY <1>1, SourceIs DEF Login
  <2>2. Sole(db, x.device)
    BY <1>6, <2>1, MovedSole DEF Shaped
  <2>3. ItemDone(x)
    BY <2>2 DEF Progress, ItemDone
  <2>4. CASE Spares(db, db', x) /\ (x.device # g.device \/ x.name # g.name)
    <3>1. At(x.device, x.name)' = At(x.device, x.name)
      BY <2>1, <2>4, LeftAt
    <3> QED BY <1>1, <2>3, <2>4, <3>1, SparedDone
  <2>5. CASE g.name = 0 /\ g.action = "create" /\ g.device = x.device
    <3>1. At(x.device, x.name)' = At(x.device, x.name)
      BY <2>1, <2>5, LeftAt
    <3>2. Expected(src, g)
      BY DEF Progress, SyncsFirst
    <3>3. Created(x)
      BY <2>5, <3>2 DEF Expected
    <3> QED BY <1>1, <2>3, <3>1, <3>3, CreatedDone
  <2> QED BY <1>6, <2>4, <2>5 DEF Own
<1>7. ASSUME ~ job.safe PROVE Leaving'
  <2>1. Leaving
    BY <1>7 DEF Progress
  <2>2. ASSUME NEW d \in db'.devices, d.name \notin Login, job.tagged_only => d.ssot
        PROVE  At(d.name, 0)' # {} \/ d.id \in objects_to_delete'["device"]
    <3>1. CASE d.name = g.device /\ g.name = 0
      BY <1>7, <2>2, <3>1 DEF Own, Named
    <3>2. CASE d.name # g.device \/ g.name # 0
      <4>1. At(d.name, 0)' = At(d.name, 0)
        BY <3>2, LeftAt DEF Named
      <4>2. At(d.name, 0) # {} \/ d.id \in objects_to_delete["device"]
        BY <1>7, <2>1, <2>2, LeavingDevice
      <4> QED BY <4>1, <4>2
    <3> QED BY <3>1, <3>2
  <2>3. ASSUME NEW d \in db'.devices, NEW i \in InterfacesOf(db', d), d.name \in Login,
               Sole(db', d.name), WasTagged(d.name), ~ IsItem(src, d.name, i.name)
        PROVE  At(d.name, i.name)' # {} \/ i.id \in objects_to_delete'["interface"]
    <3>1. At(d.name, i.name) # {} \/ i.id \in objects_to_delete["interface"]
      BY <1>1, <2>1, <2>3, LeavingInterface
    <3>2. PICK j \in db.interfaces : i.id = j.id /\ i.device = j.device /\ i.name = j.name
      BY <1>1, <2>1, <2>3, LeavingInterface
    <3>3. CASE d.name # g.device \/ i.name # g.name
      <4>1. At(d.name, i.name)' = At(d.name, i.name)
        BY <2>3, <3>3, LeftAt
      <4> QED BY <3>1, <4>1
    <3>4. CASE d.name = g.device /\ i.name = g.name
      <4>1. i.name # 0
        <5>1. j.name \in Ifaces
          BY <3>2, DatabaseIs DEF Good, InterfaceRow
        <5> QED BY <3>2, <5>1, RanksAssumption DEF Id
      <4>2. Expected(src, g) /\ g.action \in {"create", "update", "delete"}
        BY <1>1, ElementIs DEF Progress, SyncsFirst
      <4>3. g.action = "delete"
        BY <2>3, <3>4, <4>1, <4>2 DEF Expected, IsItem
      <4>4. PICK c \in db.devices : Kept(c, d)
        BY <1>1, <2>3, <3>2, MovedDevice DEF InterfacesOf
      <4>5. c \in Named(db, g.device) /\ j \in InterfacesOf(db, c) /\ c.name = d.name
        BY <2>3, <3>2, <3>4, <4>4 DEF Named, InterfacesOf, Kept
      <4>6. Sole(db, c.name)
        BY <2>3, <4>5, MovedSole DEF Shaped
      <4>7. \A b \in Named(db, c.name) : b.ssot
        BY <2>3, <4>5 DEF Progress, Login
      <4> QED BY <1>7, <2>3, <3>2, <3>4, <4>1, <4>3, <4>5, <4>6, <4>7 DEF Own
    <3> QED BY <3>3, <3>4
  <2> QED BY <1>1, <1>5, <2>2, <2>3 DEF Leaving, Login
<1> QED BY <1>0, <1>1, <1>2, <1>3, <1>4, <1>5, <1>6, <1>7 DEF Progress, ItemDone

-----------------------------------------------------------------------------
(* The handlers of devices                                                 *)

Ready(g) == /\ TypeOK /\ Good(db, next_id) /\ Shaped(db, next_id) /\ Progress
            /\ pc = "sync" /\ g \in diff /\ MayBeNext(g, diff)
Result   == Progress' /\ Shaped(db, next_id)'

LEMMA DeviceSpares ==
  ASSUME NEW D, NEW E, NEW x, E.interfaces = D.interfaces, E.addresses = D.addresses,
         \A d \in Named(D, x.device) : \E c \in Named(E, x.device) :
           c.id = d.id /\ Primaries(c) = Primaries(d),
         \A c \in Named(E, x.device) : \E d \in Named(D, x.device) : c.id = d.id
  PROVE  Spares(D, E, x)
<1>1. Of(E, x) = Of(D, x)
  BY DEF Of
<1>2. \A i : AddressesOf(E, i) = AddressesOf(D, i)
  BY DEF AddressesOf
<1>3. \A i : Leads(D, i, x.ip) => Leads(E, i, x.ip)
  BY <1>2 DEF Leads
<1>4. ASSUME Reaches(D, x) PROVE Reaches(E, x)
  <2>1. PICK d \in Named(D, x.device) : \E i \in InterfacesOf(D, d) : \E a \in AddressesOf(D, i) :
               i.name = x.name /\ a.host = x.ip /\ a.id \in Primaries(d)
    BY <1>4 DEF Reaches
  <2>2. PICK c \in Named(E, x.device) : c.id = d.id /\ Primaries(c) = Primaries(d)
    OBVIOUS
  <2>3. InterfacesOf(E, c) = InterfacesOf(D, d)
    BY <2>2 DEF InterfacesOf
  <2> QED BY <1>2, <2>1, <2>2, <2>3 DEF Reaches
<1> QED BY <1>1, <1>3, <1>4 DEF Spares

LEMMA NothingMoved ==
  ASSUME NEW D, NEW n
  PROVE  Moved(D, D, n) /\ \A x : Spares(D, D, x)
BY DEF Moved, Kept, Spares

(* A device saved.                                                         *)
LEMMA DeviceSaved ==
  ASSUME Good(db, next_id), Shaped(db, next_id), NEW d \in db.devices, NEW c,
         c.id = d.id, Primaries(c) = Primaries(d), Kept(d, c), SaveDevice(c)
  PROVE  /\ Moved(db, db', next_id) /\ Shaped(db', next_id) /\ \A x : Spares(db, db', x)
         /\ db'.devices = Put(db.devices, c) /\ Named(db', d.name) # {}
         /\ c \in Named(db', d.name)
<1>1. /\ db'.devices = Put(db.devices, c)
      /\ db'.interfaces = db.interfaces /\ db'.addresses = db.addresses
  BY TablesIs DEF SaveDevice, Good, Tables
<1>2. ASSUME NEW b \in db.devices
      PROVE  \E e \in db'.devices : Kept(b, e) /\ Primaries(e) = Primaries(b)
  <2>1. CASE b.id = d.id
    BY <1>1, <2>1 DEF Put, Shaped, Keyed
  <2>2. CASE b.id # d.id
    BY <1>1, <2>2 DEF Put, Kept
  <2> QED BY <2>1, <2>2
<1>3. ASSUME NEW e \in db'.devices PROVE \E b \in db.devices : Kept(b, e)
  BY <1>1 DEF Put, Kept
<1>4. Moved(db, db', next_id)
  BY <1>1, <1>2, <1>3 DEF Moved
<1>5. Shaped(db', next_id)
  BY <1>1 DEF Shaped, Put, Keyed, NamedOnce
<1>6. ASSUME NEW x PROVE Spares(db, db', x)
  BY <1>1, <1>2, <1>3, DeviceSpares DEF Named, Kept
<1> QED BY <1>1, <1>4, <1>5, <1>6 DEF Put, Named, Kept

LEMMA QueueSame ==
  ASSUME TypeOK, Good(db, next_id), Shaped(db, next_id), Progress, Moved(db, db', next_id),
         next_id' \in {next_id, next_id + 1, next_id + 2}, src' = src, UNCHANGED objects_to_delete
  PROVE  /\ QueueRight'
         /\ \A k \in {"interface", "device"} : objects_to_delete[k] \subseteq objects_to_delete'[k]
<1>1. next_id \in Id /\ next_id' \in Id /\ next_id <= next_id' /\ QueueRight
      /\ objects_to_delete \in [Groups -> SUBSET Id] /\ objects_to_delete' \in [Groups -> SUBSET Id]
  BY DEF TypeOK, Progress, Id
<1> QED BY <1>1, QueueKeeps

LEMMA CreateDeviceRight ==
  ASSUME NEW g, Ready(g), g.name = 0, g.action = "create", CreateDevice(g)
  PROVE  Raise \/ Result
<1> DEFINE found == {d \in db.devices : d.name = g.device /\ d.status = "Active"}
           new   == [id |-> next_id, name |-> g.device, status |-> "Active", ssot |-> TRUE,
                     safe |-> FALSE, primary_ip4 |-> None, primary_ip6 |-> None]
<1> SUFFICES ASSUME ~ Raise PROVE Result
  OBVIOUS
<1>1. /\ \E d \in found \cup (IF found = {} THEN {new} ELSE {}) : SaveDevice(TagObject(d))
      /\ next_id' = IF found = {} THEN next_id + 1 ELSE next_id
      /\ Done(g) /\ UNCHANGED objects_to_delete
  BY DEF CreateDevice
<1>2. g.device \in Login /\ next_id \in Id /\ db \in Database
  BY DEF Ready, Progress, Expected, Login, TypeOK
<1>3. SyncsFirst(g)
  BY <1>1 DEF SyncsFirst, Ready, Left, Done, Synced
<1>4. /\ Moved(db, db', next_id) /\ Shaped(db', next_id')
      /\ \A x \in Source(src) : x.device # g.device => Spares(db, db', x)
      /\ \E d \in Named(db', g.device) : d.status = "Active" /\ (job.tagged_only => d.ssot)
  <2>1. CASE found # {}
    <3>1. PICK d \in found : SaveDevice(TagObject(d))
      BY <1>1, <2>1
    <3>2. d \in db.devices /\ d.name = g.device /\ d.status = "Active" /\ d \in DeviceRow
      BY <1>2, DatabaseIs
    <3>3. PICK c : c = TagObject(d)
      OBVIOUS
    <3>4. c.id = d.id /\ Primaries(c) = Primaries(d) /\ Kept(d, c) /\ c.status = "Active" /\ c.ssot
      BY <1>2, <3>2, <3>3 DEF TagObject, DeviceRow, Primaries, Kept
    <3>5. /\ Moved(db, db', next_id) /\ Shaped(db', next_id) /\ \A x : Spares(db, db', x)
          /\ c \in Named(db', d.name)
      BY <3>1, <3>2, <3>3, <3>4, DeviceSaved DEF Ready
    <3> QED BY <1>1, <2>1, <3>2, <3>4, <3>5
  <2>2. CASE found = {}
    <3>1. SaveDevice(TagObject(new)) /\ next_id' = next_id + 1
      BY <1>1, <2>2
    <3>2. PICK c : c = TagObject(new)
      OBVIOUS
    <3>3. c.id = next_id /\ c.name = g.device /\ c.status = "Active" /\ c.ssot
      BY <3>2 DEF TagObject
    <3>4. /\ db'.devices = Put(db.devices, c)
          /\ db'.interfaces = db.interfaces /\ db'.addresses = db.addresses
      BY <1>2, <3>1, <3>2, TablesIs DEF SaveDevice, Tables
    <3>5. \A d \in db.devices : d.id \in Id /\ d.id < next_id
      BY <1>2, DatabaseIs, DeviceIs, GoodIs DEF Ready
    <3>6. db'.devices = db.devices \cup {c}
      BY <1>2, <3>3, <3>4, <3>5 DEF Put, Id
    <3>7. Moved(db, db', next_id)
      BY <1>2, <3>3, <3>4, <3>6 DEF Moved, Kept
    <3>8. Shaped(db', next_id')
      <4>1. Keyed(db'.devices)
        BY <1>2, <3>3, <3>5, <3>6 DEF Ready, Shaped, Keyed, Id
      <4>2. \A i \in db.interfaces : i.device \in Id /\ i.device < next_id
        BY <1>2, DatabaseIs DEF Ready, Shaped
      <4> QED BY <1>2, <3>1, <3>4, <4>1, <4>2 DEF Ready, Shaped, NamedOnce, Id
    <3>9. ASSUME NEW x \in Source(src), x.device # g.device PROVE Spares(db, db', x)
      <4>1. Named(db', x.device) = Named(db, x.device)
        BY <3>3, <3>6, <3>9 DEF Named
      <4> QED BY <3>4, <4>1, DeviceSpares
    <3> QED BY <3>3, <3>6, <3>7, <3>8, <3>9 DEF Named
  <2> QED BY <2>1, <2>2
<1>5. /\ QueueRight'
      /\ \A k \in {"interface", "device"} : objects_to_delete[k] \subseteq objects_to_delete'[k]
  BY <1>1, <1>3, <1>4, QueueSame DEF Ready, SyncsFirst
<1>6. Own(g)
  BY <1>2, <1>4 DEF Own
<1> QED BY <1>3, <1>4, <1>5, <1>6, ElementProgress DEF Ready, Result

LEMMA SkipRight ==
  ASSUME NEW g, Ready(g), g.name = 0, g.device \notin Login, NamedDevices(g.device) = {}, SkipDevice(g)
  PROVE  Result
<1>1. /\ db' = db /\ next_id' = next_id /\ UNCHANGED objects_to_delete
      /\ diff' = {f \in diff : f.device # g.device} /\ Named(db', g.device) = {}
  BY DEF SkipDevice, Synced, NamedDevices, Named
<1>2. SyncsFirst(g)
  BY <1>1 DEF SyncsFirst, Left, SkipDevice, Synced, Ready
<1>3. Moved(db, db', next_id) /\ \A x : Spares(db, db', x)
  BY <1>1, NothingMoved
<1>4. /\ QueueRight'
      /\ \A k \in {"interface", "device"} : objects_to_delete[k] \subseteq objects_to_delete'[k]
  BY <1>1, <1>2, <1>3, QueueSame DEF Ready, SyncsFirst
<1>5. \A x \in Source(src) : x.device # g.device
  BY SourceIs DEF Ready, TypeOK, Login
<1>6. Own(g)
  BY <1>1, <1>3, <1>5 DEF Own
<1> QED BY <1>1, <1>2, <1>3, <1>4, <1>6, ElementProgress DEF Ready, Result

LEMMA UpdateDeviceRight ==
  ASSUME NEW g, Ready(g), g.name = 0, g.action = "update", UpdateDevice(g)
  PROVE  Raise \/ Result
<1> SUFFICES ASSUME ~ Raise PROVE Result
  OBVIOUS
<1>1. g.device \in Login /\ Named(db, g.device) # {} /\ db \in Database
  BY DEF Ready, Progress, Expected, Login, TypeOK
<1>2. PICK d \in NamedDevices(g.device) :
        SaveDevice(Recovered(d)) /\ Done(g) /\ UNCHANGED <<next_id, objects_to_delete>>
  BY <1>1 DEF UpdateDevice, NamedDevices, Named
<1>3. d \in db.devices /\ d.name = g.device /\ d \in DeviceRow
  BY <1>1, DatabaseIs DEF NamedDevices
<1>4. PICK c : c = Recovered(d)
  OBVIOUS
<1>5. c.id = d.id /\ Primaries(c) = Primaries(d) /\ Kept(d, c) /\ c.status = "Active" /\ c.ssot
  BY <1>1, <1>3, <1>4 DEF Recovered, TagObject, DeviceRow, Primaries, Kept
<1>6. /\ Moved(db, db', next_id) /\ Shaped(db', next_id) /\ \A x : Spares(db, db', x)
      /\ c \in Named(db', d.name)
  BY <1>2, <1>3, <1>4, <1>5, DeviceSaved DEF Ready
<1>7. SyncsFirst(g)
  BY <1>2 DEF SyncsFirst, Ready, Left, Done, Synced
<1>8. /\ QueueRight'
      /\ \A k \in {"interface", "device"} : objects_to_delete[k] \subseteq objects_to_delete'[k]
  BY <1>2, <1>6, <1>7, QueueSame DEF Ready, SyncsFirst
<1>9. \A x \in Source(src) : x.name # 0
  BY SourceIs DEF Ready, TypeOK
<1>10. Own(g)
  BY <1>1, <1>3, <1>5, <1>6, <1>9 DEF Own
<1> QED BY <1>2, <1>6, <1>7, <1>8, <1>10, ElementProgress DEF Ready, Result

LEMMA DeleteDeviceRight ==
  ASSUME NEW g, Ready(g), g.name = 0, g.action = "delete", DeleteDevice(g)
  PROVE  Raise \/ Result
<1> SUFFICES ASSUME ~ Raise PROVE Result
  OBVIOUS
<1>1. g.device \notin Login /\ db \in Database /\ objects_to_delete \in [Groups -> SUBSET Id]
      /\ next_id \in Id
  BY DEF Ready, Progress, Expected, Login, TypeOK
<1>2. CASE NamedDevices(g.device) = {}
  BY <1>1, <1>2, SkipRight DEF DeleteDevice
<1>3. CASE NamedDevices(g.device) # {}
  <2>1. PICK d \in NamedDevices(g.device) :
          /\ IF job.safe THEN SaveDevice(SafeDeleted(d)) /\ UNCHANGED objects_to_delete
             ELSE /\ objects_to_delete' = [objects_to_delete EXCEPT !["device"] = @ \cup {d.id}]
                  /\ UNCHANGED db
          /\ Done(g) /\ UNCHANGED next_id
    BY <1>3 DEF DeleteDevice
  <2>2. d \in db.devices /\ d.name = g.device /\ d \in DeviceRow /\ Single(NamedDevices(g.device))
        /\ d.id \in Id /\ d.id < next_id
    BY <1>1, <1>3, DatabaseIs, DeviceIs, GoodIs DEF NamedDevices, DeleteDevice, Ready
  <2>3. SyncsFirst(g)
    BY <2>1 DEF SyncsFirst, Ready, Left, Done, Synced
  <2>4. \A x \in Source(src) : x.name # 0
    BY SourceIs DEF Ready, TypeOK
  <2>5. CASE job.safe
    <3>1. PICK c : c = SafeDeleted(d)
      OBVIOUS
    <3>2. c.id = d.id /\ Primaries(c) = Primaries(d)
      BY <2>2, <3>1, DeviceTagged
    <3>3. Kept(d, c)
      BY <1>1, <2>2, <2>5, <3>1 DEF SafeDeleted, IsFlagged, TagObject, DeviceRow, Kept
    <3>4. Moved(db, db', next_id) /\ Shaped(db', next_id) /\ \A x : Spares(db, db', x)
      BY <2>1, <2>2, <2>5, <3>1, <3>2, <3>3, DeviceSaved DEF Ready
    <3>5. /\ QueueRight'
          /\ \A k \in {"interface", "device"} : objects_to_delete[k] \subseteq objects_to_delete'[k]
      BY <2>1, <2>3, <2>5, <3>4, QueueSame DEF Ready, SyncsFirst
    <3>6. Own(g)
      BY <1>1, <2>4, <2>5, <3>4 DEF Own
    <3> QED BY <2>1, <2>3, <3>4, <3>5, <3>6, ElementProgress DEF Ready, Result
  <2>6. CASE ~ job.safe
    <3>1. Moved(db, db', next_id) /\ (\A x : Spares(db, db', x)) /\ db' = db /\ next_id' = next_id
      BY <2>1, <2>6, NothingMoved
    <3>2. /\ objects_to_delete' \in [Groups -> SUBSET Id]
          /\ objects_to_delete'["device"] = objects_to_delete["device"] \cup {d.id}
          /\ objects_to_delete'["interface"] = objects_to_delete["interface"]
      BY <1>1, <2>1, <2>2, <2>6 DEF Groups
    <3>3. \A b \in db.devices : b.id = d.id => b.name \notin Login
      BY <1>1, <2>2 DEF Ready, Shaped, Keyed
    <3>4. QueueRight'
      BY <1>1, <2>2, <2>3, <3>1, <3>2, <3>3, QueueKeeps DEF Ready, Progress, SyncsFirst, Id
    <3>5. \A b \in Named(db', g.device) : b.id \in objects_to_delete'["device"]
      BY <2>2, <3>1, <3>2 DEF Named, NamedDevices, Single
    <3>6. Own(g)
      BY <1>1, <2>4, <3>1, <3>5 DEF Own
    <3> QED BY <2>3, <3>1, <3>2, <3>4, <3>6, ElementProgress DEF Ready, Result
  <2> QED BY <2>5, <2>6
<1> QED BY <1>2, <1>3

-----------------------------------------------------------------------------
(* The handlers of interfaces                                              *)

(* create or update has written the interface i of the device d for the    *)
(* item of g.                                                              *)
Writes(g, d, i, host, primary) ==
  /\ Ready(g) /\ SyncsFirst(g) /\ UNCHANGED objects_to_delete
  /\ d \in db.devices /\ d.name = g.device /\ d.ssot
  /\ g.item \in Source(src) /\ g.item.device = g.device /\ g.item.name = g.name
  /\ i \in InterfaceRow /\ i.device = d.id /\ i.name = g.name
  /\ host \in {g.item.ip, None} /\ primary \in BOOLEAN /\ (primary => g.item.primary)
  /\ Saved(db, db', d, i, host, primary)
  /\ \/ /\ i.id = next_id /\ next_id' \in {next_id + 1, next_id + 2}
        /\ \A j \in db.interfaces : j.device = i.device => j.name # i.name
     \/ /\ next_id' \in {next_id, next_id + 1}
        /\ \E j \in db.interfaces : i.id = j.id /\ i.device = j.device /\ i.name = j.name

LEMMA WritesShape ==
  ASSUME NEW g, NEW d, NEW i, NEW host, NEW primary, Writes(g, d, i, host, primary)
  PROVE  Moved(db, db', next_id) /\ Shaped(db', next_id')
<1>1. /\ Good(db, next_id) /\ Shaped(db, next_id) /\ next_id \in Id /\ SameDevices(db, db')
      /\ db'.interfaces = Put(db.interfaces, i)
  BY DEF Writes, Ready, TypeOK, Saved
<1>2. /\ \A j \in db.interfaces : j.id \in Id /\ j.id < next_id /\ j.device \in Id /\ j.device < next_id
      /\ \A c \in db.devices : c.id \in Id /\ c.id < next_id
  BY <1>1, DatabaseIs, DeviceIs, GoodIs DEF Shaped
<1>3. Moved(db, db', next_id)
  <2>1. \A b, c : Same(b, c) => Kept(b, c)
    BY DEF Same, Kept
  <2>2. ASSUME NEW k \in db'.interfaces
        PROVE  \/ \E j \in db.interfaces : k.id = j.id /\ k.device = j.device /\ k.name = j.name
               \/ k.id >= next_id /\ \E c \in db.devices : c.id = k.device /\ IsItem(src, c.name, k.name)
    <3>1. CASE k \in db.interfaces
      BY <3>1
    <3>2. CASE k = i
      BY <1>1, <3>2 DEF Writes, IsItem, Id
    <3> QED BY <1>1, <3>1, <3>2 DEF Put
  <2> QED BY <1>1, <2>1, <2>2 DEF Moved, SameDevices
<1>4. Shaped(db', next_id')
  <2>1. Keyed(db'.devices)
    BY <1>1 DEF SameDevices
  <2>2. \A j \in db.interfaces : j.id # i.id /\ j.device = i.device => j.name # i.name
    BY <1>1 DEF Writes, Shaped, NamedOnce
  <2>3. NamedOnce(db')
    BY <1>1, <2>2 DEF NamedOnce, Put, Shaped
  <2>4. \A j \in db'.interfaces : j.device \in Id /\ j.device < next_id
    BY <1>1, <1>2 DEF Put, Writes
  <2> QED BY <1>1, <2>1, <2>3, <2>4 DEF Shaped, Writes, Id
<1> QED BY <1>3, <1>4

LEMMA WritesSpares ==
  ASSUME NEW g, NEW d, NEW i, NEW host, NEW primary, Writes(g, d, i, host, primary),
         NEW x \in Source(src), x # g.item
  PROVE  Spares(db, db', x) /\ (x.device # g.device \/ x.name # g.name)
<1>1. /\ db \in Database /\ Keyed(db.devices) /\ Keyed(db.interfaces) /\ SameDevices(db, db')
      /\ db'.interfaces = Put(db.interfaces, i) /\ src \in Snapshots /\ next_id \in Id
  BY DEF Writes, Ready, Good, Shaped, TypeOK, Saved
<1>2. x.device # g.device \/ x.name # g.name
  BY <1>1, ItemIsOne DEF Writes
<1>3. ASSUME NEW k \in Of(db, x) \cup Of(db', x) PROVE k \in Of(db, x) /\ k \in Of(db', x) /\ k.id # i.id
  <2>1. PICK c \in db.devices : c.name = x.device /\ c.id = k.device
    BY <1>1, <1>3 DEF Of, Named, SameDevices, Same
  <2>2. k.device # i.device \/ k.name # i.name
    <3>1. k.name = x.name
      BY <1>3 DEF Of
    <3> QED BY <1>1, <1>2, <2>1, <3>1 DEF Writes, Keyed
  <2>3. k \in db.interfaces
    BY <1>1, <1>3, <2>2 DEF Of, Put
  <2>4. k.id # i.id
    BY <1>1, <2>2, <2>3, GoodIs DEF Writes, Ready, Keyed, Id
  <2>5. \E b \in db'.devices : b.name = x.device /\ b.id = k.device
    BY <1>1, <2>1 DEF SameDevices, Same
  <2> QED BY <1>1, <1>3, <2>1, <2>3, <2>4, <2>5 DEF Of, Put, Named
<1>4. Of(db', x) = Of(db, x)
  BY <1>3
<1>5. ASSUME ListedOnce(src, x), x.ip # None, NEW k \in Of(db, x), NEW a \in AddressesOf(db, k), a.host = x.ip
      PROVE  a \in AddressesOf(db', k)
  <2>1. k.id # i.id /\ a \in db.addresses /\ a.iface = k.id
    BY <1>3 DEF AddressesOf
  <2>2. CASE host = None
    BY <2>1, <2>2 DEF Writes, Saved, AddressesOf
  <2>3. CASE host # None
    <3>1. host # x.ip
      BY <1>5, <2>3 DEF Writes, ListedOnce
    <3> QED BY <1>5, <2>1, <2>3, <3>1 DEF Writes, Saved, AddressesOf, Put
  <2> QED BY <2>2, <2>3
<1>6. ASSUME NEW k \in Of(db, x), NEW a \in AddressesOf(db', k) PROVE a \in AddressesOf(db, k)
  BY <1>3, <1>6 DEF Writes, Saved, AddressesOf, Put
<1>7. ASSUME ListedOnce(src, x), x.ip # None, NEW k \in Of(db, x), Leads(db, k, x.ip)
      PROVE  Leads(db', k, x.ip)
  BY <1>5, <1>6, <1>7 DEF Leads
<1>8. ASSUME x.primary, ListedOnce(src, x), Reaches(db, x) PROVE Reaches(db', x)
  <2>1. PICK c \in Named(db, x.device) : \E k \in InterfacesOf(db, c) : \E a \in AddressesOf(db, k) :
               k.name = x.name /\ a.host = x.ip /\ a.id \in Primaries(c)
    BY <1>8 DEF Reaches
  <2>2. PICK k \in InterfacesOf(db, c) : \E a \in AddressesOf(db, k) :
               k.name = x.name /\ a.host = x.ip /\ a.id \in Primaries(c)
    BY <2>1
  <2>10. PICK a \in AddressesOf(db, k) : k.name = x.name /\ a.host = x.ip /\ a.id \in Primaries(c)
    BY <2>2
  <2>3. k \in Of(db, x) /\ k.device = c.id /\ a \in db.addresses /\ a.iface = k.id
    BY <2>10 DEF Of, InterfacesOf, AddressesOf
  <2>4. k.id # i.id /\ k \in db'.interfaces
    BY <1>3, <2>3 DEF Of
  <2>5. a \in AddressesOf(db', k)
    BY <1>1, <1>5, <1>8, <2>10, <2>3, SourceIs
  <2>6. ~ primary \/ c.id # d.id
    <3> SUFFICES ASSUME primary, c.id = d.id PROVE FALSE
      OBVIOUS
    <3>1. x.device = g.device /\ g.item.primary
      BY <1>1 DEF Writes, Keyed, Named
    <3> QED BY <1>1, <1>8, <3>1, LoginIsOne DEF Writes
  <2>7. Has(db', c, a)
    BY <2>10, <2>3, <2>4, <2>6 DEF Writes, Saved, Named
  <2>8. PICK b \in db'.devices : Same(c, b) /\ a.id \in Primaries(b)
    BY <2>7 DEF Has
  <2>9. b \in Named(db', x.device) /\ k \in InterfacesOf(db', b)
    BY <2>3, <2>4, <2>8 DEF Same, Named, InterfacesOf
  <2> QED BY <2>10, <2>5, <2>8, <2>9 DEF Reaches
<1> QED BY <1>2, <1>4, <1>7, <1>8 DEF Spares

LEMMA WritesRight ==
  ASSUME NEW g, NEW d, NEW i, NEW host, NEW primary, Writes(g, d, i, host, primary),
         g.name # 0, g.action # "delete",
         Sole(db', g.device) => ItemDone(g.item)'
  PROVE  Result
<1>1. Moved(db, db', next_id) /\ Shaped(db', next_id')
  BY WritesShape
<1>2. /\ QueueRight'
      /\ \A k \in {"interface", "device"} : objects_to_delete[k] \subseteq objects_to_delete'[k]
  BY <1>1, QueueSame DEF Writes, Ready, SyncsFirst
<1>3. Own(g)
  BY WritesSpares DEF Own, Writes
<1> QED BY <1>1, <1>2, <1>3, ElementProgress DEF Writes, Ready, Result

(* The interface of the item.                                              *)
LEMMA WritesOne ==
  ASSUME NEW g, NEW d, NEW i, NEW host, NEW primary, Writes(g, d, i, host, primary),
         Sole(db', g.device)
  PROVE  /\ Of(db', g.item) = {i} /\ i \in db'.interfaces
         /\ \E c \in Named(db', g.device) : Same(d, c)
<1>1. db'.interfaces = Put(db.interfaces, i) /\ SameDevices(db, db') /\ Shaped(db', next_id')
      /\ Keyed(db.devices)
  <2>1. Shaped(db', next_id')
    BY WritesShape
  <2>2. Saved(db, db', d, i, host, primary) /\ Shaped(db, next_id)
    BY DEF Writes, Ready
  <2> QED BY <2>1, <2>2 DEF Saved, Shaped
<1>2. PICK c \in db'.devices : Same(d, c)
  BY <1>1 DEF SameDevices, Writes
<1>3. i \in db'.interfaces /\ c \in Named(db', g.device)
  BY <1>1, <1>2 DEF Put, Named, Same, Writes
<1>4. i \in Of(db', g.item)
  BY <1>2, <1>3 DEF Of, Writes, Same
<1>5. ASSUME NEW k \in Of(db', g.item) PROVE k = i
  <2>1. k \in db'.interfaces /\ k.name = i.name /\ k.device = c.id
    BY <1>3, <1>5 DEF Of, Sole, Single, Writes
  <2> QED BY <1>1, <1>2, <1>3, <2>1 DEF Shaped, NamedOnce, Same, Writes
<1> QED BY <1>2, <1>3, <1>4, <1>5

LEMMA WrittenDone ==
  ASSUME NEW g, NEW d, NEW i, NEW host, NEW primary, Writes(g, d, i, host, primary), Sole(db', g.device),
         (IF i.mtu = None THEN DefaultMtu ELSE i.mtu) = g.item.mtu,
         IsGiven(g.item.text) => i.text = g.item.text,
         g.item.ip # None /\ ListedOnce(src, g.item) => Leads(db', i, g.item.ip),
         aux_last = src /\ g.item.primary /\ ListedOnce(src, g.item) => Reaches(db', g.item)
  PROVE  ItemDone(g.item)'
<1>1. PICK x : x = g.item
  OBVIOUS
<1>2. At(x.device, x.name)' = {} /\ src' = src /\ aux_last' = aux_last
  BY <1>1, LeftOwn DEF Writes, Ready, Progress, SyncsFirst
<1>3. Of(db', x) = {i}
  BY <1>1, WritesOne
<1>4. ItemInSync(x)'
  BY <1>1, <1>2, <1>3 DEF ItemInSync
<1>5. aux_last = src /\ x.primary /\ ListedOnce(src, x) => PrimaryInSync(x)'
  BY <1>1, <1>2 DEF PrimaryInSync
<1>6. ItemDone(x)'
  BY <1>2, <1>4, <1>5 DEF ItemDone
<1>7. x = (g.item)'
  BY <1>1
<1> QED BY <1>1, <1>6

LEMMA GivenLeads ==
  ASSUME NEW g, NEW d, NEW i, NEW host, NEW primary, Writes(g, d, i, host, primary), host # None
  PROVE  Leads(db', i, host)
<1>1. PICK a \in AddressRow :
        /\ a.iface = i.id /\ a.host = host
        /\ db'.addresses = Put({b \in db.addresses : b.iface # i.id}, a)
  BY DEF Writes, Saved
<1>2. host \in Nat
  BY <1>1, RanksAssumption DEF AddressRow
<1>3. AddressesOf(db', i) = {a}
  BY <1>1 DEF AddressesOf, Put
<1> QED BY <1>1, <1>2, <1>3 DEF Leads

LEMMA GivenReaches ==
  ASSUME NEW g, NEW d, NEW i, NEW host, NEW primary, Writes(g, d, i, host, primary), Sole(db', g.device),
         NEW a, a.host = g.item.ip, a \in db'.addresses, a.iface = i.id, Has(db', d, a)
  PROVE  Reaches(db', g.item)
<1>1. PICK c \in db'.devices : Same(d, c) /\ a.id \in Primaries(c)
  BY DEF Has
<1>2. i \in db'.interfaces
  BY WritesOne
<1>3. c \in Named(db', g.item.device) /\ i \in InterfacesOf(db', c) /\ i.name = g.item.name
  BY <1>1, <1>2 DEF Named, InterfacesOf, Same, Writes
<1>4. a \in AddressesOf(db', i)
  BY DEF AddressesOf
<1> QED BY <1>1, <1>3, <1>4 DEF Reaches

LEMMA CreateInterfaceRight ==
  ASSUME NEW g, Ready(g), Goods, g.name # 0, g.action = "create", CreateInterface(g)
  PROVE  Raise \/ Result
<1> SUFFICES ASSUME ~ Raise PROVE Result
  OBVIOUS
<1>1. PICK d \in TaggedDevices(g) :
        SaveInterface(g, d, CreatedInterface(d, g.item),
                      IF Called(d, g.item.name) = {} THEN next_id + 1 ELSE next_id,
                      g.item.ip, g.item.ip # None /\ g.item.primary)
  BY DEF CreateInterface
<1>2. /\ g.item \in Source(src) /\ g.item.device = g.device /\ g.item.name = g.name
      /\ src \in Snapshots /\ next_id \in Id
  BY DEF Ready, Progress, Expected, TypeOK
<1>3. g.item \in Item /\ (g.item.primary => g.item.ip # None) /\ g.item.mtu # None
  BY <1>2, SourceIs
<1>4. PICK x : x = g.item
  OBVIOUS
<1>5. PICK c : c = CreatedInterface(d, x)
  OBVIOUS
<1>6. PICK n : n = IF Called(d, x.name) = {} THEN next_id + 1 ELSE next_id
  OBVIOUS
<1>7. d \in db.devices /\ d.name = g.device /\ d.ssot
  BY DEF TaggedDevices, NamedDevices
<1>8. /\ c \in InterfaceRow /\ c.device = d.id /\ c.name = x.name /\ c.ssot /\ c.mtu = x.mtu
      /\ IsGiven(x.text) => c.text = x.text
      /\ \A j \in db.interfaces : j.id = c.id => j.device = c.device
      /\ IF Called(d, x.name) = {}
         THEN c.id = next_id /\ \A j \in db.interfaces : j.device = d.id => j.name # x.name
         ELSE c.id < next_id /\ \E j \in db.interfaces : c.id = j.id /\ c.device = j.device /\ c.name = j.name
  BY <1>3, <1>4, <1>5, <1>7, CreatedInterfaceIs
<1>9. x.ip \in Hosts \cup {None} /\ x.primary \in BOOLEAN /\ x.mtu \in Mtus
  BY <1>3, <1>4 DEF Item
<1>10. n \in {next_id, next_id + 1} /\ c.id < n
  BY <1>2, <1>6, <1>8 DEF Id
<1>11. SaveInterface(g, d, c, n, x.ip, x.primary)
  <2>1. (x.ip # None /\ x.primary) = x.primary
    BY <1>3, <1>4, <1>9
  <2> QED BY <1>1, <1>4, <1>5, <1>6, <2>1
<1>12. /\ Saved(db, db', d, c, x.ip, x.primary) /\ Done(g) /\ UNCHANGED objects_to_delete
       /\ next_id' \in {n, n + 1}
  BY <1>7, <1>8, <1>9, <1>10, <1>11, SaveInterfaceSaves DEF Ready, Shaped
<1>13. SyncsFirst(g)
  BY <1>12 DEF SyncsFirst, Ready, Left, Done, Synced
<1>14. next_id + 1 + 1 = next_id + 2
  BY <1>2 DEF Id
<1>15. Writes(g, d, c, x.ip, x.primary)
  <2>1. \/ c.id = next_id /\ next_id' \in {next_id + 1, next_id + 2}
             /\ \A j \in db.interfaces : j.device = c.device => j.name # c.name
        \/ /\ next_id' \in {next_id, next_id + 1}
           /\ \E j \in db.interfaces : c.id = j.id /\ c.device = j.device /\ c.name = j.name
    BY <1>6, <1>8, <1>12, <1>14
  <2> QED BY <1>2, <1>3, <1>4, <1>7, <1>8, <1>9, <1>12, <1>13, <2>1 DEF Writes
<1>16. ASSUME Sole(db', g.device) PROVE ItemDone(g.item)'
  <2>1. x.ip # None => Leads(db', c, x.ip)
    BY <1>15, GivenLeads
  <2>2. ASSUME x.primary PROVE Reaches(db', g.item)
    <3>1. x.ip # None
      BY <1>3, <1>4, <2>2
    <3>2. PICK a \in AddressRow :
            /\ a.iface = c.id /\ a.host = x.ip
            /\ db'.addresses = Put({b \in db.addresses : b.iface # c.id}, a) /\ Has(db', d, a)
      BY <1>12, <2>2, <3>1 DEF Saved
    <3>3. a \in db'.addresses
      BY <3>2 DEF Put
    <3> QED BY <1>4, <1>15, <1>16, <3>2, <3>3, GivenReaches
  <2>3. (IF c.mtu = None THEN DefaultMtu ELSE c.mtu) = x.mtu
    BY <1>3, <1>4, <1>8
  <2> QED BY <1>4, <1>8, <1>15, <1>16, <2>1, <2>2, <2>3, WrittenDone
<1> QED BY <1>15, <1>16, WritesRight

(* What an update without an address leaves as it was.                     *)
LEMMA UngivenKeeps ==
  ASSUME NEW g, NEW d, NEW i, NEW primary, Writes(g, d, i, None, primary), Sole(db', g.device),
         NEW j \in db.interfaces, i.id = j.id, i.device = j.device, i.name = j.name
  PROVE  /\ Leads(db, j, g.item.ip) => Leads(db', i, g.item.ip)
         /\ ~ primary /\ Reaches(db, g.item) => Reaches(db', g.item)
         /\ primary /\ Leads(db, j, g.item.ip) => Reaches(db', g.item)
<1>1. /\ db'.addresses = db.addresses /\ db'.interfaces = Put(db.interfaces, i) /\ db \in Database
      /\ primary /\ FirstAddress(db, i) # {} => \E a \in FirstAddress(db, i) : Has(db', d, a)
      /\ \A c \in db.devices, b \in db.addresses : b.id \in Primaries(c) /\ ~ primary => Has(db', c, b)
  BY DEF Writes, Saved, Ready, Good
<1>2. AddressesOf(db', i) = AddressesOf(db, j) /\ AddressesOf(db, i) = AddressesOf(db, j)
  BY <1>1 DEF AddressesOf
<1>3. ASSUME ~ primary, Reaches(db, g.item) PROVE Reaches(db', g.item)
  <2>1. PICK c \in Named(db, g.item.device) : \E k \in InterfacesOf(db, c) : \E a \in AddressesOf(db, k) :
               k.name = g.item.name /\ a.host = g.item.ip /\ a.id \in Primaries(c)
    BY <1>3 DEF Reaches
  <2>2. PICK k \in InterfacesOf(db, c) : \E a \in AddressesOf(db, k) :
               k.name = g.item.name /\ a.host = g.item.ip /\ a.id \in Primaries(c)
    BY <2>1
  <2>3. PICK a \in AddressesOf(db, k) : a.host = g.item.ip /\ a.id \in Primaries(c)
    BY <2>2
  <2>4. a \in db.addresses /\ a.iface = k.id /\ k \in db.interfaces /\ k.device = c.id
        /\ k.name = g.name /\ c.name = d.name /\ c \in db.devices
    BY <2>2, <2>3 DEF AddressesOf, InterfacesOf, Named, Writes
  <2>5. PICK e \in db'.devices : Same(c, e) /\ a.id \in Primaries(e)
    BY <1>1, <1>3, <2>3, <2>4 DEF Has
  <2>6. PICK m \in db'.interfaces : m.id = k.id /\ m.device = k.device /\ m.name = k.name
    <3>1. CASE k.id # i.id
      BY <1>1, <2>4, <3>1 DEF Put
    <3>2. CASE k.id = i.id
      <4>1. k = j
        BY <2>4, <3>2, GoodIs DEF Writes, Ready, Keyed
      <4> QED BY <4>1, WritesOne
    <3> QED BY <3>1, <3>2
  <2>7. e \in Named(db', g.item.device) /\ m \in InterfacesOf(db', e) /\ m.name = g.item.name
        /\ a \in AddressesOf(db', m)
    BY <1>1, <2>4, <2>5, <2>6 DEF Named, InterfacesOf, AddressesOf, Same, Writes
  <2> QED BY <2>3, <2>5, <2>7 DEF Reaches
<1>4. ASSUME primary, Leads(db, j, g.item.ip) PROVE Reaches(db', g.item)
  <2>1. \A a \in AddressesOf(db, i) : a.host \in Nat
    BY <1>1, DatabaseIs, RanksAssumption DEF AddressesOf, AddressRow
  <2>2. PICK b \in AddressesOf(db, i) : b.host = g.item.ip /\ \A a \in AddressesOf(db, i) : b.host <= a.host
    BY <1>2, <1>4 DEF Leads
  <2>3. b \in FirstAddress(db, i)
    BY <2>2 DEF FirstAddress
  <2>4. PICK a \in FirstAddress(db, i) : Has(db', d, a)
    BY <1>1, <1>4, <2>3
  <2>5. a \in AddressesOf(db, i) /\ a.host <= b.host
    BY <2>2, <2>4 DEF FirstAddress
  <2>6. a.host = g.item.ip
    BY <2>1, <2>2, <2>5
  <2>7. a \in db'.addresses /\ a.iface = i.id
    BY <1>1, <2>5 DEF AddressesOf
  <2> QED BY <2>4, <2>6, <2>7, GivenReaches
<1> QED BY <1>2, <1>3, <1>4 DEF Leads

LEMMA UpdateInterfaceRight ==
  ASSUME NEW g, Ready(g), Goods, g.name # 0, g.action = "update", UpdateInterface(g)
  PROVE  Raise \/ Result
<1> SUFFICES ASSUME ~ Raise PROVE Result
  OBVIOUS
<1> DEFINE text == "text" \in g.attrs /\ IsGiven(g.item.text)
           W(i) == [TagObject(i) EXCEPT !.text = IF text THEN g.item.text ELSE @,
                                        !.mtu  = IF "mtu" \in g.attrs THEN g.item.mtu ELSE @]
           host == IF "ip" \in g.attrs THEN g.item.ip ELSE None
           main == "primary" \in g.attrs /\ g.item.primary
<1>1. PICK d \in TaggedDevices(g) : \E i \in Called(d, g.name) :
        SaveInterface(g, d, W(i), next_id, host, main)
  BY DEF UpdateInterface
<1>2. PICK i \in Called(d, g.name) : SaveInterface(g, d, W(i), next_id, host, main)
  BY <1>1
<1>3. /\ g.item \in Source(src) /\ g.item.device = g.device /\ g.item.name = g.name
      /\ src \in Snapshots /\ next_id \in Id /\ db \in Database
  BY DEF Ready, Progress, Expected, TypeOK
<1>4. g.item \in Item /\ (g.item.primary => g.item.ip # None) /\ g.item.mtu # None
      /\ g.item.device \in Login
  BY <1>3, SourceIs DEF Login
<1>5. d \in db.devices /\ d.name = g.device /\ d.ssot
  BY DEF TaggedDevices, NamedDevices
<1>6. /\ i \in db.interfaces /\ i.device = d.id /\ i.name = g.name /\ i \in InterfaceRow
      /\ i.id < next_id /\ \A j \in db.interfaces : j.id = i.id => j = i
  BY <1>3, DatabaseIs, GoodIs DEF Called, InterfacesOf, Ready, Keyed
<1>7. /\ W(i) \in InterfaceRow /\ W(i).id = i.id /\ W(i).device = i.device /\ W(i).name = i.name
      /\ W(i).mtu = (IF "mtu" \in g.attrs THEN g.item.mtu ELSE i.mtu)
      /\ W(i).text = (IF text THEN g.item.text ELSE i.text)
  BY <1>4, <1>6 DEF Item, InterfaceRow, TagObject, IsGiven
<1>8. host \in Hosts \cup {None} /\ main \in BOOLEAN /\ host \in {g.item.ip, None}
  BY <1>4 DEF Item
<1>9. PICK c : c = W(i)
  OBVIOUS
<1>10. PICK h, p : h = host /\ p = main
  OBVIOUS
<1> HIDE DEF W, host, main
<1>11. /\ Saved(db, db', d, c, h, p) /\ Done(g) /\ UNCHANGED objects_to_delete
       /\ next_id' \in {next_id, next_id + 1}
  <2>1. c \in InterfaceRow /\ c.id < next_id /\ c.device = d.id
        /\ \A j \in db.interfaces : j.id = c.id => j.device = c.device
    BY <1>6, <1>7, <1>9
  <2>2. h \in Hosts \cup {None} /\ p \in BOOLEAN /\ SaveInterface(g, d, c, next_id, h, p)
    BY <1>2, <1>8, <1>9, <1>10
  <2>3. Keyed(db.devices)
    BY DEF Ready, Shaped
  <2> QED BY <1>5, <2>1, <2>2, <2>3, SaveInterfaceSaves
<1>12. SyncsFirst(g)
  BY <1>11 DEF SyncsFirst, Ready, Left, Done, Synced
<1>13. Writes(g, d, c, h, p)
  <2>1. p => g.item.primary
    BY <1>10 DEF main
  <2> QED BY <1>3, <1>5, <1>6, <1>7, <1>8, <1>9, <1>10, <1>11, <1>12, <2>1 DEF Writes
<1>14. ASSUME Sole(db', g.device) PROVE ItemDone(g.item)'
  <2>1. Sole(db, g.device)
    BY <1>3, <1>4, <1>13, <1>14, WritesShape, MovedSole DEF Ready, Shaped
  <2>2. ItemDone(g.item)
    BY <1>3, <2>1 DEF Ready, Progress, ItemDone
  <2>3. i \in Of(db, g.item)
    BY <1>3, <1>5, <1>6 DEF Of, Named
  <2>4. At(g.device, g.name) = {g}
    BY FirstIs DEF Ready, Progress
  <2>5. \A a : Pends(g.item, a) <=> a \in g.attrs
    BY <1>3, <2>4 DEF Pends
  <2>6. (IF c.mtu = None THEN DefaultMtu ELSE c.mtu) = g.item.mtu
    BY <1>4, <1>7, <1>9, <2>2, <2>3, <2>5 DEF ItemDone, ItemInSync
  <2>7. IsGiven(g.item.text) => c.text = g.item.text
    BY <1>7, <1>9, <2>2, <2>3, <2>5 DEF ItemDone, ItemInSync
  <2>8. ASSUME g.item.ip # None, "ip" \in g.attrs PROVE Leads(db', c, g.item.ip) /\ h = g.item.ip
    BY <1>10, <1>13, <2>8, GivenLeads DEF host
  <2>9. ASSUME g.item.ip # None, "ip" \notin g.attrs, ListedOnce(src, g.item)
        PROVE  Leads(db, i, g.item.ip) /\ h = None
    BY <1>10, <2>2, <2>3, <2>5, <2>9 DEF ItemDone, ItemInSync, host
  <2>10. h = None => /\ Leads(db, i, g.item.ip) => Leads(db', c, g.item.ip)
                     /\ ~ p /\ Reaches(db, g.item) => Reaches(db', g.item)
                     /\ p /\ Leads(db, i, g.item.ip) => Reaches(db', g.item)
    <3> SUFFICES ASSUME h = None
                 PROVE  /\ Leads(db, i, g.item.ip) => Leads(db', c, g.item.ip)
                        /\ ~ p /\ Reaches(db, g.item) => Reaches(db', g.item)
                        /\ p /\ Leads(db, i, g.item.ip) => Reaches(db', g.item)
      OBVIOUS
    <3>1. Writes(g, d, c, None, p)
      BY <1>13
    <3>2. c.id = i.id /\ c.device = i.device /\ c.name = i.name
      BY <1>7, <1>9
    <3> QED BY <1>6, <1>14, <3>1, <3>2, UngivenKeeps
  <2>11. g.item.ip # None /\ ListedOnce(src, g.item) => Leads(db', c, g.item.ip)
    BY <2>8, <2>9, <2>10
  <2>12. ASSUME aux_last = src, g.item.primary, ListedOnce(src, g.item) PROVE Reaches(db', g.item)
    <3>1. g.item.ip # None /\ PrimaryInSync(g.item)
      BY <1>4, <2>2, <2>12 DEF ItemDone
    <3>2. CASE "primary" \in g.attrs /\ "ip" \in g.attrs
      <4>1. p /\ h # None /\ h = g.item.ip
        BY <1>10, <2>8, <2>12, <3>1, <3>2 DEF main
      <4>2. PICK a \in AddressRow :
              /\ a.iface = c.id /\ a.host = h
              /\ db'.addresses = Put({b \in db.addresses : b.iface # c.id}, a) /\ Has(db', d, a)
        BY <1>11, <4>1 DEF Saved
      <4>3. a \in db'.addresses
        BY <4>2 DEF Put
      <4> QED BY <1>13, <1>14, <4>1, <4>2, <4>3, GivenReaches
    <3>3. CASE "primary" \in g.attrs /\ "ip" \notin g.attrs
      <4>1. p /\ h = None /\ Leads(db, i, g.item.ip)
        BY <1>10, <2>9, <2>12, <3>1, <3>3 DEF main
      <4> QED BY <2>10, <4>1
    <3>4. CASE "primary" \notin g.attrs
      <4>1. "ip" \notin g.attrs
        BY <1>3, <2>4, <3>1, <3>4 DEF PrimaryInSync
      <4>2. ~ p /\ h = None /\ Reaches(db, g.item)
        BY <1>10, <2>5, <3>1, <3>4, <4>1 DEF main, host, PrimaryInSync
      <4> QED BY <2>10, <4>2
    <3> QED BY <3>2, <3>3, <3>4
  <2> QED BY <1>13, <1>14, <2>6, <2>7, <2>11, <2>12, WrittenDone
<1> QED BY <1>13, <1>14, WritesRight

LEMMA DeleteInterfaceRight ==
  ASSUME NEW g, Ready(g), g.name # 0, g.action = "delete", DeleteInterface(g)
  PROVE  Raise \/ Result
<1> SUFFICES ASSUME ~ Raise PROVE Result
  OBVIOUS
<1>1. /\ ~ IsItem(src, g.device, g.name) /\ db \in Database /\ Keyed(db.devices) /\ next_id \in Id
      /\ objects_to_delete \in [Groups -> SUBSET Id] /\ Keyed(db.interfaces)
  BY DEF Ready, Progress, Expected, TypeOK, Shaped, Good
<1>2. \A x \in Source(src) : x.device # g.device \/ x.name # g.name
  BY <1>1 DEF IsItem
<1>3. CASE TaggedDevices(g) = {}
  <2>1. Done(g) /\ UNCHANGED <<db, next_id, objects_to_delete>>
    BY <1>3 DEF DeleteInterface
  <2>2. SyncsFirst(g)
    BY <2>1 DEF SyncsFirst, Ready, Left, Done, Synced
  <2>3. Moved(db, db', next_id) /\ \A x : Spares(db, db', x)
    BY <2>1, NothingMoved
  <2>4. /\ QueueRight'
        /\ \A k \in {"interface", "device"} : objects_to_delete[k] \subseteq objects_to_delete'[k]
    BY <2>1, <2>2, <2>3, QueueSame DEF Ready, SyncsFirst
  <2>5. Own(g)
    BY <1>2, <1>3, <2>3 DEF Own, TaggedDevices, NamedDevices, Named
  <2> QED BY <2>1, <2>2, <2>3, <2>4, <2>5, ElementProgress DEF Ready, Result
<1>4. CASE TaggedDevices(g) # {}
  <2>1. PICK d \in TaggedDevices(g) : \E i \in Called(d, g.name) :
          LET first == FirstAddress(db, i)
              flagged == IF i.safe THEN i ELSE [TagObject(i) EXCEPT !.safe = TRUE]
          IN  /\ IF job.safe
                 THEN /\ db' = [db EXCEPT !.interfaces = Put(@, flagged),
                                          !.addresses = (@ \ first) \cup {SafeDeleted(a) : a \in first}]
                      /\ UNCHANGED objects_to_delete
                 ELSE /\ objects_to_delete' = [objects_to_delete EXCEPT
                           !["interface"] = @ \cup {i.id}, !["ipaddress"] = @ \cup Ids(first)]
                      /\ UNCHANGED db
              /\ Done(g) /\ UNCHANGED next_id
    BY <1>4 DEF DeleteInterface
  <2>2. PICK i \in Called(d, g.name) :
          LET first == FirstAddress(db, i)
              flagged == IF i.safe THEN i ELSE [TagObject(i) EXCEPT !.safe = TRUE]
          IN  /\ IF job.safe
                 THEN /\ db' = [db EXCEPT !.interfaces = Put(@, flagged),
                                          !.addresses = (@ \ first) \cup {SafeDeleted(a) : a \in first}]
                      /\ UNCHANGED objects_to_delete
                 ELSE /\ objects_to_delete' = [objects_to_delete EXCEPT
                           !["interface"] = @ \cup {i.id}, !["ipaddress"] = @ \cup Ids(first)]
                      /\ UNCHANGED db
              /\ Done(g) /\ UNCHANGED next_id
    BY <2>1
  <2>3. /\ d \in db.devices /\ d.name = g.device /\ i \in db.interfaces /\ i.device = d.id /\ i.name = g.name
        /\ i \in InterfaceRow /\ i.id \in Id /\ i.id < next_id
    BY <1>1, DatabaseIs, GoodIs DEF TaggedDevices, NamedDevices, Called, InterfacesOf, Ready
  <2>4. \A x \in Source(src) : i \notin Of(db, x)
    BY <1>1, <1>2, <2>3 DEF Of, Named, Keyed
  <2>5. SyncsFirst(g)
    BY <2>2 DEF SyncsFirst, Ready, Left, Done, Synced
  <2>6. CASE ~ job.safe
    <3>1. db' = db /\ next_id' = next_id
      BY <2>2, <2>6
    <3>2. Ids(FirstAddress(db, i)) \subseteq Id
      BY <1>1, DatabaseIs DEF FirstAddress, AddressesOf, Ids
    <3>3. /\ objects_to_delete' \in [Groups -> SUBSET Id]
          /\ objects_to_delete'["device"] = objects_to_delete["device"]
          /\ objects_to_delete'["interface"] = objects_to_delete["interface"] \cup {i.id}
      BY <1>1, <2>2, <2>3, <2>6, <3>2 DEF Groups
    <3>4. Moved(db, db', next_id) /\ \A x : Spares(db, db', x)
      BY <3>1, NothingMoved
    <3>5. \A j \in db.interfaces : j.id = i.id => j = i
      BY <1>1, <2>3 DEF Keyed
    <3>6. QueueRight'
      BY <1>1, <2>3, <2>4, <2>5, <3>1, <3>3, <3>4, <3>5, QueueKeeps DEF Ready, Progress, SyncsFirst, Id
    <3>7. ASSUME NEW c \in Named(db, g.device), NEW j \in InterfacesOf(db, c), Sole(db, c.name), j.name = g.name
          PROVE  j.id \in objects_to_delete'["interface"]
      <4>1. c = d
        BY <2>3, <3>7 DEF Sole, Single, Named
      <4>2. j = i
        BY <2>3, <3>7, <4>1 DEF InterfacesOf, Ready, Shaped, NamedOnce
      <4> QED BY <3>3, <4>2
    <3>8. Own(g)
      BY <1>2, <3>4, <3>7 DEF Own
    <3> QED BY <2>5, <3>1, <3>3, <3>4, <3>6, <3>8, ElementProgress DEF Ready, Result
  <2>7. CASE job.safe
    <3> DEFINE flagged == IF i.safe THEN i ELSE [TagObject(i) EXCEPT !.safe = TRUE]
               first == FirstAddress(db, i)
    <3>1. /\ db'.devices = db.devices /\ db'.interfaces = Put(db.interfaces, flagged)
          /\ db'.addresses = Flagged(db.addresses, first)
          /\ UNCHANGED objects_to_delete /\ next_id' = next_id
      BY <1>1, <2>2, <2>7 DEF Database, Flagged
    <3>2. flagged.id = i.id /\ flagged.device = i.device /\ flagged.name = i.name
      BY <2>3 DEF InterfaceRow, TagObject
    <3>3. PICK f : f = flagged
      OBVIOUS
    <3>4. /\ db'.interfaces = Put(db.interfaces, f)
          /\ f.id = i.id /\ f.device = i.device /\ f.name = i.name
      BY <3>1, <3>2, <3>3
    <3> HIDE DEF flagged
    <3>5. \A j \in db.interfaces : j.id = i.id => j = i
      BY <1>1, <2>3 DEF Keyed
    <3>6. Moved(db, db', next_id)
      BY <2>3, <3>1, <3>4 DEF Moved, Kept, Put
    <3>7. Shaped(db', next_id)
      BY <2>3, <3>1, <3>4, <3>5 DEF Ready, Shaped, Put, NamedOnce
    <3>8. ASSUME NEW x \in Source(src) PROVE Spares(db, db', x)
      <4>1. ASSUME NEW k \in Of(db, x) \cup Of(db', x) PROVE k \in Of(db, x) /\ k \in Of(db', x) /\ k.id # i.id
        <5>1. k.device # i.device \/ k.name # i.name
          BY <1>1, <1>2, <2>3, <3>1, <4>1 DEF Of, Named, Keyed
        <5>2. k \in db.interfaces /\ k.id # i.id
          BY <3>4, <3>5, <4>1, <5>1 DEF Of, Put
        <5> QED BY <3>1, <3>4, <4>1, <5>2 DEF Of, Named, Put
      <4>2. Of(db', x) = Of(db, x)
        BY <4>1
      <4>3. ASSUME NEW k, k.id # i.id PROVE AddressesOf(db', k) = AddressesOf(db, k)
        <5>1. first \subseteq AddressRow /\ \A a \in first : a.iface = i.id
          BY <1>1, DatabaseIs DEF FirstAddress, AddressesOf
        <5>2. \A a \in first : SafeDeleted(a).iface = i.id
          BY <5>1, AddressTagged
        <5> HIDE DEF first
        <5> QED BY <3>1, <4>3, <5>1, <5>2 DEF AddressesOf, Flagged
      <4>4. \A k \in Of(db, x) : Leads(db, k, x.ip) => Leads(db', k, x.ip)
        BY <4>1, <4>3 DEF Leads
      <4>5. ASSUME Reaches(db, x) PROVE Reaches(db', x)
        <5>1. PICK c \in Named(db, x.device) : \E k \in InterfacesOf(db, c) : \E a \in AddressesOf(db, k) :
                     k.name = x.name /\ a.host = x.ip /\ a.id \in Primaries(c)
          BY <4>5 DEF Reaches
        <5>2. PICK k \in InterfacesOf(db, c) : \E a \in AddressesOf(db, k) :
                     k.name = x.name /\ a.host = x.ip /\ a.id \in Primaries(c)
          BY <5>1
        <5>3. k \in Of(db, x)
          BY <5>2 DEF Of, InterfacesOf
        <5>4. k \in InterfacesOf(db', c) /\ AddressesOf(db', k) = AddressesOf(db, k) /\ c \in Named(db', x.device)
          BY <3>1, <4>1, <4>3, <5>2, <5>3 DEF Of, InterfacesOf, Named
        <5> QED BY <5>2, <5>4 DEF Reaches
      <4> QED BY <4>2, <4>4, <4>5 DEF Spares
    <3>9. /\ QueueRight'
          /\ \A k \in {"interface", "device"} : objects_to_delete[k] \subseteq objects_to_delete'[k]
      BY <2>5, <3>1, <3>6, QueueSame DEF Ready, SyncsFirst
    <3>10. Own(g)
      BY <1>2, <2>7, <3>8 DEF Own
    <3> QED BY <2>5, <3>1, <3>6, <3>7, <3>9, <3>10, ElementProgress DEF Ready, Result
  <2> QED BY <2>6, <2>7
<1> QED BY <1>3, <1>4

LEMMA ElementRight ==
  ASSUME Inv, CleanInv, SyncElement
  PROVE  Raise \/ (Result /\ pc' = "sync")
<1>1. pc = "sync" /\ job \in Option /\ Goods /\ TypeOK /\ DiffOK
  BY DEF SyncElement, Inv, Goods, TypeOK
<1>2. Raise \/ pc' = "sync"
  BY <1>1, ElementKeeps DEF Went
<1>3. PICK g \in diff :
        /\ MayBeNext(g, diff)
        /\ \/ g.name = 0 /\ g.action = "create" /\ CreateDevice(g)
           \/ g.name = 0 /\ g.action = "update" /\ UpdateDevice(g)
           \/ g.name = 0 /\ g.action = "delete" /\ DeleteDevice(g)
           \/ g.name # 0 /\ g.action = "create" /\ CreateInterface(g)
           \/ g.name # 0 /\ g.action = "update" /\ UpdateInterface(g)
           \/ g.name # 0 /\ g.action = "delete" /\ DeleteInterface(g)
  BY DEF SyncElement
<1>4. Ready(g)
  BY <1>1, <1>3 DEF Ready, CleanInv, Goods
<1> QED BY <1>1, <1>2, <1>3, <1>4, CreateDeviceRight, UpdateDeviceRight, DeleteDeviceRight,
           CreateInterfaceRight, UpdateInterfaceRight, DeleteInterfaceRight

-----------------------------------------------------------------------------
(* The elements of a diff                                                  *)

On(n, action, attrs) ==
  [device |-> n, name |-> 0, action |-> action, attrs |-> attrs, item |-> None]
About(x, action, attrs, item) ==
  [device |-> x.device, name |-> x.name, action |-> action, attrs |-> attrs, item |-> item]
Models(D, L) == UNION {LoadInterfaces(D, d) : d \in L}
SamePlace(x, y) == x.device = y.device /\ x.name = y.name

LEMMA DiffHas ==
  ASSUME NEW S, NEW D, NEW L
  PROVE  /\ \A n \in DOMAIN S.login : (\A d \in L : d.name # n) => On(n, "create", {}) \in DiffFrom(S, D, L)
         /\ \A d \in L : d.name \notin DOMAIN S.login => On(d.name, "delete", {}) \in DiffFrom(S, D, L)
         /\ \A d \in L : d.name \in DOMAIN S.login /\ d.status # "Active" =>
              On(d.name, "update", {"status"}) \in DiffFrom(S, D, L)
         /\ \A x \in Source(S) : (\A y \in Models(D, L) : ~ SamePlace(y, x)) =>
              About(x, "create", {}, x) \in DiffFrom(S, D, L)
         /\ \A y \in Models(D, L) : (\A x \in Source(S) : ~ SamePlace(x, y)) =>
              About(y, "delete", {}, None) \in DiffFrom(S, D, L)
         /\ \A x \in Source(S), y \in Models(D, L) : SamePlace(y, x) /\ Changed(x, y) # {} =>
              About(x, "update", Changed(x, y), x) \in DiffFrom(S, D, L)
<1> DEFINE at(X, x) == {y \in X : y.device = x.device /\ y.name = x.name}
           items == Source(S)
           models == Models(D, L)
           A1 == {On(n, "create", {}) : n \in {n \in DOMAIN S.login : \A d \in L : d.name # n}}
           A2 == {On(d.name, "delete", {}) : d \in {d \in L : d.name \notin DOMAIN S.login}}
           A3 == {On(d.name, "update", {"status"}) :
                    d \in {d \in L : d.name \in DOMAIN S.login /\ d.status # "Active"}}
           A4 == {About(x, "create", {}, x) : x \in {x \in items : at(models, x) = {}}}
           A5 == {About(y, "delete", {}, None) : y \in {y \in models : at(items, y) = {}}}
           A6 == {e \in {About(p[1], "update", Changed(p[1], p[2]), p[1]) :
                           p \in {p \in items \X models : p[2] \in at(models, p[1])}} : e.attrs # {}}
<1>1. DiffFrom(S, D, L) = A1 \cup A2 \cup A3 \cup A4 \cup A5 \cup A6
  BY Zenon DEF DiffFrom, On, About, Models
<1>2. \A n \in DOMAIN S.login : (\A d \in L : d.name # n) => On(n, "create", {}) \in A1
  OBVIOUS
<1>3. \A d \in L : d.name \notin DOMAIN S.login => On(d.name, "delete", {}) \in A2
  OBVIOUS
<1>4. \A d \in L : d.name \in DOMAIN S.login /\ d.status # "Active" => On(d.name, "update", {"status"}) \in A3
  OBVIOUS
<1>5. \A x \in items : (\A y \in models : ~ SamePlace(y, x)) => About(x, "create", {}, x) \in A4
  BY DEF SamePlace
<1>6. \A y \in models : (\A x \in items : ~ SamePlace(x, y)) => About(y, "delete", {}, None) \in A5
  BY DEF SamePlace
<1>7. ASSUME NEW x \in items, NEW y \in models, SamePlace(y, x), Changed(x, y) # {}
      PROVE  About(x, "update", Changed(x, y), x) \in A6
  <2>1. <<x, y>> \in {p \in items \X models : p[2] \in at(models, p[1])}
    BY <1>7 DEF SamePlace
  <2>2. About(x, "update", Changed(x, y), x) \in
          {About(p[1], "update", Changed(p[1], p[2]), p[1]) :
             p \in {p \in items \X models : p[2] \in at(models, p[1])}}
    BY <2>1
  <2>3. About(x, "update", Changed(x, y), x).attrs # {}
    BY <1>7 DEF About
  <2> QED BY <2>2, <2>3
<1> HIDE DEF A1, A2, A3, A4, A5, A6
<1> QED BY <1>1, <1>2, <1>3, <1>4, <1>5, <1>6, <1>7

LEMMA DiffOnly ==
  ASSUME NEW S, NEW D, NEW L, NEW e \in DiffFrom(S, D, L)
  PROVE  \/ \E n \in DOMAIN S.login : (\A d \in L : d.name # n) /\ e = On(n, "create", {})
         \/ \E d \in L : d.name \notin DOMAIN S.login /\ e = On(d.name, "delete", {})
         \/ \E d \in L : /\ d.name \in DOMAIN S.login /\ d.status # "Active"
                         /\ e = On(d.name, "update", {"status"})
         \/ \E x \in Source(S) : /\ \A y \in Models(D, L) : ~ SamePlace(y, x)
                                 /\ e = About(x, "create", {}, x)
         \/ \E y \in Models(D, L) : /\ \A x \in Source(S) : ~ SamePlace(x, y)
                                    /\ e = About(y, "delete", {}, None)
         \/ \E x \in Source(S), y \in Models(D, L) :
              SamePlace(y, x) /\ e = About(x, "update", Changed(x, y), x) /\ Changed(x, y) # {}
<1> DEFINE at(X, x) == {y \in X : y.device = x.device /\ y.name = x.name}
           items == Source(S)
           models == Models(D, L)
<1>1. \/ e \in {On(n, "create", {}) : n \in {n \in DOMAIN S.login : \A d \in L : d.name # n}}
      \/ e \in {On(d.name, "delete", {}) : d \in {d \in L : d.name \notin DOMAIN S.login}}
      \/ e \in {On(d.name, "update", {"status"}) :
                  d \in {d \in L : d.name \in DOMAIN S.login /\ d.status # "Active"}}
      \/ e \in {About(x, "create", {}, x) : x \in {x \in items : at(models, x) = {}}}
      \/ e \in {About(y, "delete", {}, None) : y \in {y \in models : at(items, y) = {}}}
      \/ /\ e \in {About(p[1], "update", Changed(p[1], p[2]), p[1]) :
                     p \in {p \in items \X models : p[2] \in at(models, p[1])}}
         /\ e.attrs # {}
  BY Zenon DEF DiffFrom, On, About, Models
<1>2. ASSUME e \in {About(p[1], "update", Changed(p[1], p[2]), p[1]) :
                      p \in {p \in items \X models : p[2] \in at(models, p[1])}}, e.attrs # {}
      PROVE  \E x \in items, y \in models :
               SamePlace(y, x) /\ e = About(x, "update", Changed(x, y), x) /\ Changed(x, y) # {}
  <2>1. PICK p \in items \X models : /\ p[2] \in at(models, p[1])
                                     /\ e = About(p[1], "update", Changed(p[1], p[2]), p[1])
    BY <1>2
  <2>2. p[1] \in items /\ p[2] \in models /\ SamePlace(p[2], p[1])
    BY <2>1 DEF SamePlace
  <2>3. Changed(p[1], p[2]) # {}
    BY <1>2, <2>1 DEF About
  <2> QED BY <2>1, <2>2, <2>3
<1> QED BY <1>1, <1>2 DEF SamePlace

-----------------------------------------------------------------------------
(* What the adapter loads for an interface                                 *)

PrimaryIp(d) == IF d.primary_ip4 # None THEN d.primary_ip4 ELSE d.primary_ip6
ModelOf(D, d, i) ==
  LET a == FirstAddress(D, i)
  IN  [device |-> d.name, name |-> i.name, text |-> i.text, status |-> d.status,
       mtu |-> IF i.mtu = None THEN DefaultMtu ELSE i.mtu,
       ip |-> IF a = {} THEN None ELSE (CHOOSE x \in a : TRUE).host,
       primary |-> PrimaryIp(d) \in Ids(a)]

LEMMA ModelsAre ==
  ASSUME NEW D, NEW L
  PROVE  /\ \A y \in Models(D, L) : \E d \in L : \E i \in InterfacesOf(D, d) : y = ModelOf(D, d, i)
         /\ \A d \in L : \A i \in InterfacesOf(D, d) : ModelOf(D, d, i) \in Models(D, L)
<1>1. \A d : LoadInterfaces(D, d) = {ModelOf(D, d, i) : i \in InterfacesOf(D, d)}
  BY Zenon DEF LoadInterfaces, ModelOf, PrimaryIp
<1> QED BY <1>1 DEF Models

LEMMA LeadsFirst ==
  ASSUME NEW D \in Database, NEW i, NEW h
  PROVE  /\ Leads(D, i, h) => FirstAddress(D, i) # {} /\ \A a \in FirstAddress(D, i) : a.host = h
         /\ \A a \in FirstAddress(D, i) : Leads(D, i, a.host)
<1>1. \A a \in AddressesOf(D, i) : a.host \in Nat
  BY DatabaseIs, RanksAssumption DEF AddressesOf, AddressRow
<1>2. ASSUME Leads(D, i, h)
      PROVE  FirstAddress(D, i) # {} /\ \A a \in FirstAddress(D, i) : a.host = h
  <2>1. PICK a \in AddressesOf(D, i) : a.host = h /\ \A b \in AddressesOf(D, i) : h <= b.host
    BY <1>2 DEF Leads
  <2>2. a \in FirstAddress(D, i)
    BY <2>1 DEF FirstAddress
  <2>3. ASSUME NEW b \in FirstAddress(D, i) PROVE b.host = h
    <3>1. b \in AddressesOf(D, i) /\ b.host <= a.host
      BY <2>1 DEF FirstAddress
    <3> QED BY <1>1, <2>1, <3>1
  <2> QED BY <2>2, <2>3
<1>3. \A a \in FirstAddress(D, i) : Leads(D, i, a.host)
  BY DEF FirstAddress, Leads
<1> QED BY <1>2, <1>3

LEMMA ModelIs ==
  ASSUME NEW D \in Database, NEW d \in DeviceRow, NEW i \in InterfacesOf(D, d), NEW y, y = ModelOf(D, d, i)
  PROVE  /\ y.device = d.name /\ y.name = i.name /\ y.text = i.text /\ y.status = d.status
         /\ y.mtu = (IF i.mtu = None THEN DefaultMtu ELSE i.mtu) /\ y.name # 0
         /\ \A h : Leads(D, i, h) => y.ip = h
         /\ y.ip # None => Leads(D, i, y.ip)
         /\ y.primary \in BOOLEAN
         /\ y.primary => \E a \in FirstAddress(D, i) : a.id \in Primaries(d)
         /\ ~ y.primary => \A a \in FirstAddress(D, i) : a.id \in Primaries(d) => d.primary_ip4 # None
<1> DEFINE first == FirstAddress(D, i)
<1>1. /\ y.device = d.name /\ y.name = i.name /\ y.text = i.text /\ y.status = d.status
      /\ y.mtu = (IF i.mtu = None THEN DefaultMtu ELSE i.mtu)
      /\ y.ip = (IF first = {} THEN None ELSE (CHOOSE x \in first : TRUE).host)
      /\ y.primary = (PrimaryIp(d) \in Ids(first))
  BY DEF ModelOf
<1>2. y.name # 0
  <2>1. i.name \in Ifaces
    BY DatabaseIs DEF InterfacesOf, InterfaceRow
  <2> QED BY <1>1, <2>1, RanksAssumption DEF Id
<1>3. first # {} => (CHOOSE x \in first : TRUE) \in first
  BY AnyIsIn
<1>4. ASSUME NEW h, Leads(D, i, h) PROVE y.ip = h
  BY <1>1, <1>3, <1>4, LeadsFirst
<1>5. ASSUME y.ip # None PROVE Leads(D, i, y.ip)
  BY <1>1, <1>3, <1>5, LeadsFirst
<1>6. \A a \in first : a.id # None
  <2>1. first \subseteq D.addresses
    BY DEF FirstAddress, AddressesOf
  <2> QED BY <2>1, DatabaseIs, IdIs
<1>7. y.primary => \E a \in first : a.id \in Primaries(d)
  <2> SUFFICES ASSUME y.primary PROVE \E a \in first : a.id \in Primaries(d)
    OBVIOUS
  <2>1. PICK a \in first : a.id = PrimaryIp(d)
    BY <1>1 DEF Ids
  <2> QED BY <1>6, <2>1 DEF PrimaryIp, Primaries
<1>8. ~ y.primary => \A a \in first : a.id \in Primaries(d) => d.primary_ip4 # None
  <2> SUFFICES ASSUME ~ y.primary, NEW a \in first, a.id \in Primaries(d), d.primary_ip4 = None PROVE FALSE
    OBVIOUS
  <2>1. a.id = PrimaryIp(d)
    BY DEF Primaries, PrimaryIp
  <2> QED BY <1>1, <2>1 DEF Ids
<1> QED BY <1>1, <1>2, <1>4, <1>5, <1>7, <1>8

LEMMA ChangedIs ==
  ASSUME NEW x, NEW y
  PROVE  /\ "text" \in Changed(x, y) <=> x.text # y.text
         /\ "mtu" \in Changed(x, y) <=> x.mtu # y.mtu
         /\ "ip" \in Changed(x, y) <=> x.ip # y.ip
         /\ "primary" \in Changed(x, y) <=> x.primary # y.primary
         /\ "status" \in Changed(x, y) <=> y.status # "Active"
<1>1. \A a \in {"text", "mtu", "ip", "primary"} : a \in Changed(x, y) <=> x[a] # y[a]
  BY DEF Changed
<1>2. "status" \in Changed(x, y) <=> y.status # "Active"
  BY DEF Changed
<1> QED BY <1>1, <1>2

(* A device that is alone with its name, and whose interfaces are loaded.  *)
LEMMA OneModel ==
  ASSUME NEW D \in Database, NEW L \in SUBSET D.devices, NamedOnce(D), NEW d \in L, Sole(D, d.name),
         NEW i \in InterfacesOf(D, d), NEW y \in Models(D, L), y.device = d.name, y.name = i.name
  PROVE  y = ModelOf(D, d, i)
<1>1. PICK c \in L : \E j \in InterfacesOf(D, c) : y = ModelOf(D, c, j)
  BY ModelsAre
<1>2. PICK j \in InterfacesOf(D, c) : y = ModelOf(D, c, j)
  BY <1>1
<1>3. c \in DeviceRow
  BY DatabaseIs
<1>4. c.name = d.name /\ j.name = i.name
  BY <1>2, <1>3, ModelIs
<1>5. c = d
  BY <1>4 DEF Sole, Single, Named
<1>6. j = i
  BY <1>4, <1>5 DEF NamedOnce, InterfacesOf
<1> QED BY <1>2, <1>5, <1>6

-----------------------------------------------------------------------------
(* What is to be synced when a job has loaded both sides                   *)

LEMMA ScopeLoaded ==
  ASSUME NEW D, NEW tagged_only, NEW L \in Loads(D, tagged_only)
  PROVE  /\ L \in SUBSET D.devices /\ \A d \in L : tagged_only => d.ssot
         /\ \A c, d \in L : c.name = d.name => c = d
         /\ \A d \in D.devices : (tagged_only => d.ssot) =>
              /\ \E c \in L : c.name = d.name
              /\ Sole(D, d.name) => d \in L
<1>1. /\ L \in SUBSET D.devices /\ \A d \in L : tagged_only => d.ssot
      /\ \A c, d \in L : c.name = d.name => c = d
      /\ \A d \in D.devices : (tagged_only => d.ssot) => \E c \in L : c.name = d.name
  BY DEF Loads
<1>2. ASSUME NEW d \in D.devices, NEW c \in L, c.name = d.name, Sole(D, d.name) PROVE d = c
  BY <1>1, <1>2 DEF Sole, Single, Named
<1> QED BY <1>1, <1>2

Loaded(L) == /\ TypeOK /\ pc = "target" /\ L \in Loads(db, job.tagged_only)
             /\ diff' = DiffFrom(src, db, L)
             /\ UNCHANGED <<db, base, next_id, job, src, objects_to_delete, aux_last>>

LEMMA LoadExpected ==
  ASSUME NEW L, Loaded(L)
  PROVE  (\A e \in diff : Expected(src, e))'
<1>1. /\ src \in Snapshots /\ src' = src /\ db' = db /\ db \in Database /\ L \in SUBSET db.devices
      /\ diff' = DiffFrom(src, db, L)
  BY ScopeLoaded DEF Loaded, TypeOK
<1>2. /\ \A y \in Models(db, L) : y.name # 0 /\ \E d \in L : d.name = y.device
      /\ \A x \in Source(src) : x.name # 0
  <2>1. ASSUME NEW y \in Models(db, L) PROVE y.name # 0 /\ \E d \in L : d.name = y.device
    <3>1. PICK d \in L : \E i \in InterfacesOf(db, d) : y = ModelOf(db, d, i)
      BY ModelsAre
    <3> QED BY <1>1, <3>1, DatabaseIs, ModelIs
  <2> QED BY <1>1, <2>1, SourceIs
<1> SUFFICES ASSUME NEW e \in DiffFrom(src, db, L) PROVE Expected(src, e)'
  BY <1>1
<1>3. CASE \E n \in DOMAIN src.login : (\A d \in L : d.name # n) /\ e = On(n, "create", {})
  <2>1. PICK n \in DOMAIN src.login : (\A d \in L : d.name # n) /\ e = On(n, "create", {})
    BY <1>3
  <2>2. e.device = n /\ e.name = 0 /\ e.action = "create"
    BY <2>1 DEF On
  <2>3. ASSUME NEW x \in Source(src), x.device = n PROVE Created(x)'
    <3>1. About(x, "create", {}, x) \in DiffFrom(src, db, L)
      BY <1>2, <2>1, <2>3, DiffHas DEF SamePlace
    <3>2. About(x, "create", {}, x).device = x.device /\ About(x, "create", {}, x).name = x.name
          /\ About(x, "create", {}, x).action = "create"
      BY DEF About
    <3> QED BY <1>1, <3>1, <3>2 DEF Created, At
  <2> QED BY <1>1, <2>2, <2>3 DEF Expected
<1>4. CASE \E d \in L : d.name \notin DOMAIN src.login /\ e = On(d.name, "delete", {})
  BY <1>1, <1>4 DEF On, Expected
<1>5. CASE \E d \in L : d.name \in DOMAIN src.login /\ d.status # "Active" /\ e = On(d.name, "update", {"status"})
  BY <1>1, <1>5 DEF On, Expected, Named
<1>6. CASE \E x \in Source(src) : e = About(x, "create", {}, x)
  BY <1>1, <1>2, <1>6 DEF About, Expected
<1>7. CASE \E y \in Models(db, L) : (\A x \in Source(src) : ~ SamePlace(x, y)) /\ e = About(y, "delete", {}, None)
  BY <1>1, <1>2, <1>7 DEF About, Expected, IsItem, SamePlace
<1>8. CASE \E x \in Source(src), y \in Models(db, L) : e = About(x, "update", Changed(x, y), x)
  BY <1>1, <1>2, <1>8 DEF About, Expected
<1> QED BY <1>3, <1>4, <1>5, <1>6, <1>7, <1>8, DiffOnly

LEMMA LoadDevice ==
  ASSUME NEW L, Loaded(L), NEW n \in DOMAIN src.login
  PROVE  DeviceInSync(n)'
<1>1. /\ src' = src /\ db' = db /\ job' = job /\ L \in SUBSET db.devices /\ diff' = DiffFrom(src, db, L)
      /\ \A d \in L : job.tagged_only => d.ssot
  BY ScopeLoaded DEF Loaded
<1>2. CASE \A d \in L : d.name # n
  <2>1. On(n, "create", {}) \in DiffFrom(src, db, L)
    BY <1>2, DiffHas
  <2> QED BY <1>1, <2>1 DEF DeviceInSync, At, On
<1>3. ASSUME NEW d \in L, d.name = n, d.status # "Active" PROVE DeviceInSync(n)'
  <2>1. On(n, "update", {"status"}) \in DiffFrom(src, db, L)
    BY <1>3, DiffHas
  <2> QED BY <1>1, <2>1 DEF DeviceInSync, At, On
<1>4. ASSUME NEW d \in L, d.name = n, d.status = "Active" PROVE DeviceInSync(n)'
  BY <1>1, <1>4 DEF DeviceInSync, Named
<1> QED BY <1>2, <1>3, <1>4

LEMMA LoadItem ==
  ASSUME NEW L, Loaded(L), NamedOnce(db), aux_last # None => Settled(aux_last),
         NEW x \in Source(src), Sole(db, x.device)
  PROVE  ItemDone(x)'
<1>1. /\ src \in Snapshots /\ src' = src /\ db' = db /\ aux_last' = aux_last /\ db \in Database
      /\ L \in SUBSET db.devices /\ diff' = DiffFrom(src, db, L) /\ x.name # 0 /\ x.mtu # None
      /\ (x.primary => x.ip # None)
  BY ScopeLoaded, SourceIs DEF Loaded, TypeOK
<1>2. ASSUME \A y \in Models(db, L) : ~ SamePlace(y, x) PROVE ItemDone(x)'
  <2>1. About(x, "create", {}, x) \in diff'
    BY <1>1, <1>2, DiffHas
  <2>2. \A a : Created(x)' /\ Pends(x, a)'
    BY <2>1 DEF Created, Pends, At, About
  <2>3. ASSUME NEW e \in At(x.device, x.name)' PROVE e.attrs = {}
    <3>1. e \in DiffFrom(src, db, L) /\ e.device = x.device /\ e.name = x.name
      BY <1>1 DEF At
    <3>2. CASE \E n : e = On(n, "create", {}) \/ e = On(n, "delete", {}) \/ e = On(n, "update", {"status"})
      BY <1>1, <3>1, <3>2 DEF On
    <3>3. CASE \E z \in Source(src) : e = About(z, "create", {}, z)
      BY <3>3 DEF About
    <3>4. CASE \E z, y : e = About(y, "delete", {}, z)
      BY <3>4 DEF About
    <3>5. CASE \E z \in Source(src), y \in Models(db, L) :
                 SamePlace(y, z) /\ e = About(z, "update", Changed(z, y), z) /\ Changed(z, y) # {}
      BY <1>2, <3>1, <3>5 DEF SamePlace, About
    <3> QED BY <3>1, <3>2, <3>3, <3>4, <3>5, DiffOnly
  <2> QED BY <2>2, <2>3 DEF ItemDone, ItemInSync, PrimaryInSync
<1>3. ASSUME NEW w \in Models(db, L), SamePlace(w, x) PROVE ItemDone(x)'
  <2>1. PICK d \in L : \E i \in InterfacesOf(db, d) : w = ModelOf(db, d, i)
    BY ModelsAre
  <2>2. PICK i \in InterfacesOf(db, d) : w = ModelOf(db, d, i)
    BY <2>1
  <2>3. d \in DeviceRow /\ d \in db.devices
    BY <1>1, DatabaseIs
  <2>4. /\ w.device = d.name /\ w.name = i.name /\ w.text = i.text
        /\ w.mtu = (IF i.mtu = None THEN DefaultMtu ELSE i.mtu)
        /\ \A h : Leads(db, i, h) => w.ip = h
        /\ w.ip # None => Leads(db, i, w.ip)
        /\ w.primary => \E a \in FirstAddress(db, i) : a.id \in Primaries(d)
    BY <1>1, <2>2, <2>3, ModelIs
  <2>5. d.name = x.device /\ i.name = x.name
    BY <1>3, <2>4 DEF SamePlace
  <2>6. Of(db, x) = {i}
    <3>1. i \in Of(db, x)
      BY <2>3, <2>5 DEF Of, Named, InterfacesOf
    <3>2. ASSUME NEW k \in Of(db, x) PROVE k = i
      <4>1. PICK c \in Named(db, x.device) : c.id = k.device
        BY <3>2 DEF Of
      <4>2. c = d
        BY <2>3, <2>5, <4>1 DEF Sole, Single, Named
      <4> QED BY <2>5, <3>2, <4>1, <4>2 DEF Of, InterfacesOf, NamedOnce
    <3> QED BY <3>1, <3>2
  <2>7. \A e \in At(x.device, x.name)' : e.action = "update" /\ e.attrs = Changed(x, w)
    <3> SUFFICES ASSUME NEW e \in At(x.device, x.name)' PROVE e.action = "update" /\ e.attrs = Changed(x, w)
      OBVIOUS
    <3>1. e \in DiffFrom(src, db, L) /\ e.device = x.device /\ e.name = x.name
      BY <1>1 DEF At
    <3>2. CASE \E n : e = On(n, "create", {}) \/ e = On(n, "delete", {}) \/ e = On(n, "update", {"status"})
      BY <1>1, <3>1, <3>2 DEF On
    <3>3. CASE \E z \in Source(src) : (\A y \in Models(db, L) : ~ SamePlace(y, z)) /\ e = About(z, "create", {}, z)
      BY <1>3, <3>1, <3>3 DEF About, SamePlace
    <3>4. CASE \E y \in Models(db, L) : (\A z \in Source(src) : ~ SamePlace(z, y)) /\ e = About(y, "delete", {}, None)
      BY <3>1, <3>4 DEF About, SamePlace
    <3>5. CASE \E z \in Source(src), y \in Models(db, L) :
                 SamePlace(y, z) /\ e = About(z, "update", Changed(z, y), z) /\ Changed(z, y) # {}
      <4>1. PICK z \in Source(src), y \in Models(db, L) :
              SamePlace(y, z) /\ e = About(z, "update", Changed(z, y), z)
        BY <3>5
      <4>2. z.device = x.device /\ z.name = x.name
        BY <3>1, <4>1 DEF About
      <4>3. z = x
        BY <1>1, <4>2, ItemIsOne
      <4>4. y = w
        BY <1>1, <2>2, <2>5, <4>1, <4>3, OneModel DEF SamePlace
      <4> QED BY <4>1, <4>3, <4>4 DEF About
    <3> QED BY <3>1, <3>2, <3>3, <3>4, <3>5, DiffOnly
  <2>8. \A a : ~ Pends(x, a)' => a \notin Changed(x, w)
    <3> SUFFICES ASSUME NEW a, a \in Changed(x, w) PROVE Pends(x, a)'
      OBVIOUS
    <3>1. About(x, "update", Changed(x, w), x) \in diff'
      BY <1>1, <1>3, DiffHas
    <3> QED BY <3>1 DEF Pends, At, About
  <2>9. /\ "text" \notin Changed(x, w) => x.text = i.text
        /\ "mtu" \notin Changed(x, w) => x.mtu = (IF i.mtu = None THEN DefaultMtu ELSE i.mtu)
        /\ "ip" \notin Changed(x, w) <=> x.ip = w.ip
        /\ "primary" \notin Changed(x, w) => x.primary = w.primary
    BY <2>4, ChangedIs
  <2>10. ItemInSync(x)'
    BY <1>1, <2>4, <2>6, <2>8, <2>9 DEF ItemInSync
  <2>11. ASSUME aux_last = src, x.primary, ListedOnce(src, x) PROVE PrimaryInSync(x)'
    <3>1. Settled(src)
      BY <1>1, <2>11, SnapshotsAssumption
    <3>2. Leads(db, i, x.ip)
      BY <2>6, <2>11, <3>1 DEF Settled
    <3>3. "ip" \notin Changed(x, w)
      BY <2>4, <2>9, <3>2
    <3>4. ASSUME ~ Pends(x, "primary")' PROVE Reaches(db, x)
      <4>1. w.primary
        BY <2>8, <2>9, <2>11, <3>4
      <4>2. PICK a \in FirstAddress(db, i) : a.id \in Primaries(d)
        BY <2>4, <4>1
      <4>3. a.host = x.ip /\ a \in AddressesOf(db, i)
        BY <1>1, <3>2, <4>2, LeadsFirst DEF FirstAddress
      <4>4. d \in Named(db, x.device)
        BY <2>3, <2>5 DEF Named
      <4> QED BY <2>5, <4>2, <4>3, <4>4 DEF Reaches
    <3>5. Reaches(db', x) <=> Reaches(db, x)
      BY <1>1
    <3> QED BY <2>7, <3>3, <3>4, <3>5 DEF PrimaryInSync
  <2> QED BY <1>1, <2>10, <2>11 DEF ItemDone
<1> QED BY <1>2, <1>3

(* What an element is about, and where it stands.                          *)
OfDevice(S, L, e) ==
  \/ \E n \in DOMAIN S.login : (\A d \in L : d.name # n) /\ e = On(n, "create", {})
  \/ \E d \in L : d.name \notin DOMAIN S.login /\ e = On(d.name, "delete", {})
  \/ \E d \in L : d.name \in DOMAIN S.login /\ e = On(d.name, "update", {"status"})
OfItem(S, M, e) ==
  \E x \in Source(S) : /\ \A y \in M : ~ SamePlace(y, x)
                       /\ SamePlace(e, x) /\ e = About(x, "create", {}, x)
OfModel(S, M, e) ==
  \E y \in M : /\ \A x \in Source(S) : ~ SamePlace(x, y)
               /\ SamePlace(e, y) /\ e = About(y, "delete", {}, None)
OfBoth(S, M, e) ==
  \E x \in Source(S), y \in M : /\ SamePlace(y, x) /\ SamePlace(e, x)
                               /\ e = About(x, "update", Changed(x, y), x)

LEMMA ElementsAre ==
  ASSUME NEW S, NEW D, NEW L, NEW e \in DiffFrom(S, D, L)
  PROVE  \/ OfDevice(S, L, e) \/ OfItem(S, Models(D, L), e)
         \/ OfModel(S, Models(D, L), e) \/ OfBoth(S, Models(D, L), e)
<1>1. ASSUME NEW x, NEW action, NEW attrs, NEW item, e = About(x, action, attrs, item)
      PROVE  SamePlace(e, x)
  BY <1>1 DEF About, SamePlace
<1> QED BY <1>1, DiffOnly DEF OfDevice, OfItem, OfModel, OfBoth

LEMMA LoadOneEach ==
  ASSUME TypeOK, Shaped(db, next_id), NEW L, Loaded(L)
  PROVE  OneEach'
<1>1. /\ diff' = DiffFrom(src, db, L) /\ L \subseteq db.devices /\ db \in Database
      /\ \A c, d \in L : c.name = d.name => c = d
      /\ src \in Snapshots
  BY ScopeLoaded DEF Loaded, Loads, TypeOK
<1>2. ASSUME NEW y \in Models(db, L), NEW z \in Models(db, L), SamePlace(y, z)
      PROVE  y = z
  <2>1. PICK c \in L : \E i \in InterfacesOf(db, c) : y = ModelOf(db, c, i)
    BY <1>1, ModelsAre
  <2>2. PICK d \in L : \E j \in InterfacesOf(db, d) : z = ModelOf(db, d, j)
    BY <1>1, ModelsAre
  <2>7. PICK i \in InterfacesOf(db, c) : y = ModelOf(db, c, i)
    BY <2>1
  <2>8. PICK j \in InterfacesOf(db, d) : z = ModelOf(db, d, j)
    BY <2>2
  <2>3. c \in DeviceRow /\ d \in DeviceRow
    BY <1>1, DatabaseIs
  <2>4. c.name = d.name /\ i.name = j.name
    BY <1>1, <1>2, <2>3, <2>7, <2>8, ModelIs DEF SamePlace
  <2>5. c = d
    BY <1>1, <2>4
  <2>6. i = j
    BY <2>4, <2>5 DEF Shaped, NamedOnce, InterfacesOf
  <2> QED BY <2>5, <2>6, <2>7, <2>8
<1>3. ASSUME NEW e \in DiffFrom(src, db, L), NEW f \in DiffFrom(src, db, L), SamePlace(e, f)
      PROVE  e = f
  <2>1. \A x \in Source(src) : x.name # 0
    BY <1>1, SourceIs
  <2>2. \A y \in Models(db, L) : y.name # 0
    <3> SUFFICES ASSUME NEW y \in Models(db, L) PROVE y.name # 0
      OBVIOUS
    <3>1. PICK d \in L : \E i \in InterfacesOf(db, d) : y = ModelOf(db, d, i)
      BY ModelsAre
    <3>2. d \in DeviceRow
      BY <1>1, DatabaseIs
    <3> QED BY <1>1, <3>1, <3>2, ModelIs
  <2>3. \A x, y \in Source(src) : SamePlace(x, y) => x = y
    BY <1>1, ItemIsOne DEF SamePlace
  <2>4. \A x, y, z : SamePlace(x, y) => SamePlace(y, x) /\ (SamePlace(y, z) => SamePlace(x, z))
    BY DEF SamePlace
  <2>5. /\ OfDevice(src, L, e) \/ OfItem(src, Models(db, L), e) \/ OfModel(src, Models(db, L), e)
           \/ OfBoth(src, Models(db, L), e)
        /\ OfDevice(src, L, f) \/ OfItem(src, Models(db, L), f) \/ OfModel(src, Models(db, L), f)
           \/ OfBoth(src, Models(db, L), f)
    BY ElementsAre
  <2>6. ASSUME NEW g, OfDevice(src, L, g)
        PROVE  /\ g.name = 0 /\ g.attrs \in {{}, {"status"}} /\ g.action \in {"create", "delete", "update"}
               /\ g.action = "create" <=> g.device \in DOMAIN src.login /\ \A d \in L : d.name # g.device
               /\ g.action = "delete" <=> g.device \notin DOMAIN src.login
               /\ g = On(g.device, g.action, IF g.action = "update" THEN {"status"} ELSE {})
    BY <2>6 DEF OfDevice, On
  <2>7. ASSUME NEW g, \/ OfItem(src, Models(db, L), g) \/ OfModel(src, Models(db, L), g)
                       \/ OfBoth(src, Models(db, L), g)
        PROVE  g.name # 0
    BY <2>1, <2>2, <2>7 DEF OfItem, OfModel, OfBoth, SamePlace
  <2>8. e.name = f.name /\ e.device = f.device
    BY <1>3 DEF SamePlace
  <2>9. CASE e.name = 0
    <3>1. OfDevice(src, L, e) /\ OfDevice(src, L, f)
      BY <2>5, <2>7, <2>8, <2>9
    <3> QED BY <2>6, <2>8, <3>1
  <2>10. CASE e.name # 0
    <3>1. ~ OfDevice(src, L, e) /\ ~ OfDevice(src, L, f)
      BY <2>6, <2>8, <2>10
    <3>2. CASE OfItem(src, Models(db, L), e)
      BY <1>3, <2>3, <2>4, <2>5, <3>1, <3>2 DEF OfItem, OfModel, OfBoth
    <3>3. CASE OfModel(src, Models(db, L), e)
      BY <1>2, <1>3, <2>4, <2>5, <3>1, <3>3 DEF OfItem, OfModel, OfBoth
    <3>4. CASE OfBoth(src, Models(db, L), e)
      BY <1>2, <1>3, <2>3, <2>4, <2>5, <3>1, <3>4 DEF OfItem, OfModel, OfBoth
    <3> QED BY <2>5, <3>1, <3>2, <3>3, <3>4
  <2> QED BY <2>9, <2>10
<1> QED BY <1>1, <1>3 DEF OneEach, SamePlace

LEMMA LoadRight ==
  ASSUME TypeOK, Shaped(db, next_id), db = base, NoneQueued("interface"), NoneQueued("device"),
         aux_last # None => Settled(aux_last), LoadTarget
  PROVE  Progress'
<1>1. PICK L : Loaded(L)
  BY DEF LoadTarget, Loaded
<1>2. /\ src' = src /\ db' = db /\ base' = base /\ job' = job /\ aux_last' = aux_last
      /\ objects_to_delete' = objects_to_delete /\ next_id' = next_id
      /\ L \in SUBSET db.devices /\ diff' = DiffFrom(src, db, L)
      /\ \A d \in db.devices : (job.tagged_only => d.ssot) =>
           (\E c \in L : c.name = d.name) /\ (Sole(db, d.name) => d \in L)
      /\ src \in Snapshots /\ db \in Database
  BY <1>1, ScopeLoaded DEF Loaded, TypeOK
<1>3. OneEach' /\ (\A e \in diff : Expected(src, e))'
  BY <1>1, LoadOneEach, LoadExpected
<1>4. \A n \in DOMAIN src.login : DeviceInSync(n)'
  BY <1>1, LoadDevice
<1>5. \A n : WasTagged(n)' => \A d \in Named(db', n) : d.ssot
  BY <1>2 DEF WasTagged
<1>6. \A x \in Source(src) : Sole(db, x.device) => ItemDone(x)'
  BY <1>1, LoadItem DEF Shaped
<1>7. QueueRight'
  BY <1>2 DEF QueueRight, NoneQueued
<1>8. Leaving'
  <2>1. ASSUME NEW d \in db.devices, d.name \notin DOMAIN src.login, job.tagged_only => d.ssot
        PROVE  At(d.name, 0)' # {}
    <3>1. PICK c \in L : c.name = d.name
      BY <1>2, <2>1
    <3>2. On(d.name, "delete", {}) \in diff'
      BY <1>2, <2>1, <3>1, DiffHas
    <3> QED BY <3>2 DEF At, On
  <2>2. ASSUME NEW d \in db.devices, NEW i \in InterfacesOf(db, d), Sole(db, d.name), WasTagged(d.name),
               ~ IsItem(src, d.name, i.name)
        PROVE  At(d.name, i.name)' # {}
    <3>1. d \in L
      BY <1>2, <2>2 DEF WasTagged, Named
    <3>2. PICK y \in Models(db, L) : y = ModelOf(db, d, i)
      BY <3>1, ModelsAre
    <3>3. d \in DeviceRow
      BY <1>2, DatabaseIs
    <3>4. y.device = d.name /\ y.name = i.name
      BY <1>2, <3>2, <3>3, ModelIs
    <3>5. About(y, "delete", {}, None) \in diff'
      BY <1>2, <2>2, <3>4, DiffHas DEF IsItem, SamePlace
    <3> QED BY <3>4, <3>5 DEF At, About
  <2>3. \A n : WasTagged(n)' = WasTagged(n)
    BY <1>2 DEF WasTagged
  <2> QED BY <1>2, <2>1, <2>2, <2>3 DEF Leaving
<1> QED BY <1>2, <1>3, <1>4, <1>5, <1>6, <1>7, <1>8 DEF Progress, ItemDone

-----------------------------------------------------------------------------
(* sync_complete                                                           *)

AddressesIn(D, I)  == UNION {AddressesOf(D, i) : i \in I}
InterfacesIn(D, S) == UNION {InterfacesOf(D, d) : d \in S}
UnlinkedRows(D, A, K) == {Unlinked(d, Ids(A)) : d \in {d \in D.devices : d.id \notin K}}

(* What goes is no interface of an item and no device of the source.       *)
LEMMA Withdrawn ==
  ASSUME NEW D, NEW E, NEW n \in Id, Good(D, n), Shaped(D, n), src \in Snapshots,
         NEW I \in SUBSET D.interfaces, NEW K,
         NEW A, A = AddressesIn(D, I),
         E.interfaces = D.interfaces \ I, E.addresses = D.addresses \ A,
         E.devices = UnlinkedRows(D, A, K),
         \A d \in D.devices : d.id \in K => d.name \notin Login,
         \A i \in I : \A x \in Source(src) : i \notin Of(D, x)
  PROVE  Moved(D, E, n) /\ Shaped(E, n) /\ \A x \in Source(src) : Spares(D, E, x)
<1>1. /\ D \in Database /\ Keyed(D.devices) /\ Keyed(D.interfaces) /\ Keyed(D.addresses)
      /\ A \subseteq D.addresses /\ \A a \in A : \E i \in I : a.iface = i.id
  BY DEF Good, Shaped, AddressesOf, AddressesIn
<1>2. ASSUME NEW d \in D.devices
      PROVE  /\ Kept(d, Unlinked(d, Ids(A))) /\ Unlinked(d, Ids(A)).id = d.id
             /\ Unlinked(d, Ids(A)).name = d.name
             /\ Primaries(Unlinked(d, Ids(A))) = Primaries(d) \ Ids(A)
  <2>1. d \in DeviceRow
    BY <1>1, DatabaseIs
  <2>2. Unlinked(d, Ids(A)).name = d.name /\ Kept(d, Unlinked(d, Ids(A)))
    BY <2>1 DEF Unlinked, DeviceRow, Kept
  <2> QED BY <2>1, <2>2, Unlinking
<1>3. /\ \A d \in D.devices : d.id \notin K => Unlinked(d, Ids(A)) \in E.devices
      /\ \A c \in E.devices : \E d \in D.devices : c = Unlinked(d, Ids(A))
  BY DEF UnlinkedRows
<1>4. Moved(D, E, n)
  <2>1. \A d \in D.devices : d.name \in Login => \E c \in E.devices : Kept(d, c)
    BY <1>2, <1>3
  <2>2. ASSUME NEW c \in E.devices PROVE \E d \in D.devices : Kept(d, c)
    <3>1. PICK d \in D.devices : c = Unlinked(d, Ids(A))
      BY <1>3
    <3> QED BY <1>2, <3>1
  <2> QED BY <2>1, <2>2 DEF Moved
<1>5. Shaped(E, n)
  <2>1. ASSUME NEW b \in E.devices, NEW c \in E.devices, b.id = c.id PROVE b = c
    <3>1. PICK p \in D.devices : b = Unlinked(p, Ids(A))
      BY <1>3
    <3>2. PICK q \in D.devices : c = Unlinked(q, Ids(A))
      BY <1>3
    <3>3. p.id = q.id
      BY <1>2, <2>1, <3>1, <3>2
    <3> QED BY <1>1, <3>1, <3>2, <3>3 DEF Keyed
  <2> QED BY <2>1 DEF Shaped, NamedOnce, Keyed
<1>6. ASSUME NEW x \in Source(src) PROVE Spares(D, E, x)
  <2>1. x.device \in Login
    BY SourceIs DEF Login
  <2>2. Of(E, x) = Of(D, x)
    <3>1. ASSUME NEW k \in Of(D, x) PROVE k \in Of(E, x)
      <4>0. k \in D.interfaces /\ k.name = x.name
        BY DEF Of
      <4>1. PICK c \in D.devices : c.name = x.device /\ c.id = k.device
        BY <3>1 DEF Of, Named
      <4>2. Unlinked(c, Ids(A)) \in E.devices
        BY <1>3, <2>1, <4>1
      <4>3. k \notin I
        BY <3>1
      <4>4. Unlinked(c, Ids(A)) \in Named(E, x.device) /\ Unlinked(c, Ids(A)).id = k.device
        BY <1>2, <4>1, <4>2 DEF Named
      <4>5. k \in E.interfaces
        BY <4>0, <4>3
      <4> QED BY <4>0, <4>4, <4>5 DEF Of
    <3>2. ASSUME NEW k \in Of(E, x) PROVE k \in Of(D, x)
      <4>1. PICK c \in E.devices : c.name = x.device /\ c.id = k.device
        BY DEF Of, Named
      <4>2. PICK d \in D.devices : c = Unlinked(d, Ids(A))
        BY <1>3
      <4>3. d \in Named(D, x.device) /\ d.id = k.device
        BY <1>2, <4>1, <4>2 DEF Named
      <4> QED BY <4>3 DEF Of
    <3> QED BY <3>1, <3>2
  <2>3. ASSUME NEW k \in D.interfaces, k \notin I PROVE AddressesOf(E, k) = AddressesOf(D, k)
    BY <1>1, <2>3 DEF AddressesOf, Keyed
  <2>4. \A k \in Of(D, x) : k \in D.interfaces /\ k \notin I
    BY DEF Of
  <2>5. \A k \in Of(D, x) : Leads(D, k, x.ip) => Leads(E, k, x.ip)
    BY <2>3, <2>4 DEF Leads
  <2>6. ASSUME Reaches(D, x) PROVE Reaches(E, x)
    <3>1. PICK c \in Named(D, x.device) : \E k \in InterfacesOf(D, c) : \E a \in AddressesOf(D, k) :
                 k.name = x.name /\ a.host = x.ip /\ a.id \in Primaries(c)
      BY <2>6 DEF Reaches
    <3>2. PICK k \in InterfacesOf(D, c) : \E a \in AddressesOf(D, k) :
                 k.name = x.name /\ a.host = x.ip /\ a.id \in Primaries(c)
      BY <3>1
    <3>3. PICK a \in AddressesOf(D, k) : a.host = x.ip /\ a.id \in Primaries(c)
      BY <3>2
    <3>4. k \in Of(D, x)
      BY <3>2 DEF Of, InterfacesOf
    <3>5. a \in AddressesOf(E, k) /\ k \in E.interfaces
      BY <2>3, <2>4, <3>3, <3>4
    <3>6. a.id \notin Ids(A)
      BY <1>1, <3>5 DEF AddressesOf, Ids, Keyed
    <3>7. PICK b \in E.devices : b = Unlinked(c, Ids(A))
      BY <1>3, <2>1 DEF Named
    <3>8. b \in Named(E, x.device) /\ b.id = c.id /\ a.id \in Primaries(b)
      BY <1>2, <3>3, <3>6, <3>7 DEF Named
    <3>9. k \in InterfacesOf(E, b)
      BY <3>5, <3>8 DEF InterfacesOf
    <3> QED BY <3>2, <3>3, <3>5, <3>8, <3>9 DEF Reaches
  <2> QED BY <2>2, <2>5, <2>6 DEF Spares
<1> QED BY <1>4, <1>5, <1>6

LEMMA InterfacesGone ==
  ASSUME NEW D \in Database, NEW I \in SUBSET D.interfaces, NEW E, E = WithoutInterfaces(D, I),
         NEW A, A = AddressesIn(D, I)
  PROVE  /\ E \in Database /\ E.interfaces = D.interfaces \ I /\ E.addresses = D.addresses \ A
         /\ E.devices = UnlinkedRows(D, A, {})
<1>1. PICK F : F = WithoutAddresses(D, A)
  OBVIOUS
<1>2. /\ F.devices = {Unlinked(d, Ids(A)) : d \in D.devices}
      /\ F.interfaces = D.interfaces /\ F.addresses = D.addresses \ A /\ F \in Database
  <2>1. D.devices \subseteq DeviceRow
    BY DatabaseIs
  <2>2. {Unlinked(d, Ids(A)) : d \in D.devices} \subseteq DeviceRow
    BY <2>1, Unlinking
  <2> QED BY <1>1, <2>2 DEF WithoutAddresses, Database
<1>3. E = [F EXCEPT !.interfaces = @ \ I]
  BY <1>1, Zenon DEF WithoutInterfaces, AddressesIn
<1>4. F.devices = UnlinkedRows(D, A, {})
  BY <1>2 DEF UnlinkedRows
<1> QED BY <1>2, <1>3, <1>4 DEF Database

LEMMA DevicesGone ==
  ASSUME NEW D \in Database, NEW S \in SUBSET D.devices, NEW E, E = WithoutDevices(D, S),
         NEW I, I = InterfacesIn(D, S),
         NEW A, A = AddressesIn(D, I)
  PROVE  /\ E.interfaces = D.interfaces \ I /\ E.addresses = D.addresses \ A
         /\ E.devices = UnlinkedRows(D, A, Ids(S))
<1>1. I \in SUBSET D.interfaces
  BY DEF InterfacesOf, InterfacesIn
<1>2. PICK F : F = WithoutInterfaces(D, I)
  OBVIOUS
<1>3. /\ F \in Database /\ F.interfaces = D.interfaces \ I /\ F.addresses = D.addresses \ A
      /\ F.devices = UnlinkedRows(D, A, {})
  BY <1>1, <1>2, InterfacesGone
<1>4. E = [F EXCEPT !.devices = {d \in @ : d.id \notin Ids(S)}]
  BY <1>2 DEF WithoutDevices, InterfacesIn
<1>5. ASSUME NEW d \in D.devices PROVE Unlinked(d, Ids(A)).id = d.id
  BY DatabaseIs, Unlinking
<1>6. E.interfaces = F.interfaces /\ E.addresses = F.addresses
      /\ E.devices = {d \in F.devices : d.id \notin Ids(S)}
  BY <1>3, <1>4 DEF Database
<1>7. /\ \A c \in F.devices : \E d \in D.devices : c = Unlinked(d, Ids(A))
      /\ \A d \in D.devices : Unlinked(d, Ids(A)) \in F.devices
  BY <1>3 DEF UnlinkedRows
<1>8. E.devices \subseteq UnlinkedRows(D, A, Ids(S))
  <2> SUFFICES ASSUME NEW c \in E.devices
               PROVE  \E d \in D.devices : d.id \notin Ids(S) /\ c = Unlinked(d, Ids(A))
    BY DEF UnlinkedRows
  <2>1. PICK d \in D.devices : c = Unlinked(d, Ids(A))
    BY <1>6, <1>7
  <2> QED BY <1>5, <1>6, <2>1
<1>9. ASSUME NEW d \in D.devices, d.id \notin Ids(S) PROVE Unlinked(d, Ids(A)) \in E.devices
  BY <1>5, <1>6, <1>9, <1>7
<1>10. UnlinkedRows(D, A, Ids(S)) \subseteq E.devices
  BY <1>9 DEF UnlinkedRows
<1> QED BY <1>3, <1>6, <1>8, <1>10

LEMMA GroupProgress ==
  ASSUME TypeOK, Good(db, next_id), Shaped(db, next_id), Progress, diff = {}, pc # "idle",
         UNCHANGED <<base, next_id, job, src, diff, aux_last>>,
         Moved(db, db', next_id), \A x \in Source(src) : Spares(db, db', x),
         objects_to_delete' \in [Groups -> SUBSET Id],
         \A k \in {"interface", "device"} : objects_to_delete'[k] \subseteq objects_to_delete[k],
         ~ job.safe => Leaving'
  PROVE  Progress'
<1>0. src \in Snapshots /\ next_id \in Id /\ objects_to_delete \in [Groups -> SUBSET Id]
  BY DEF TypeOK
<1>1. /\ next_id' = next_id /\ next_id <= next_id
      /\ \A m, k : At(m, k) = {} /\ At(m, k)' = At(m, k)
  BY <1>0 DEF At, Id
<1>2. QueueRight'
  BY <1>0, <1>1, QueueKeeps DEF Progress
<1>3. ASSUME NEW x \in Source(src), Sole(db', x.device) PROVE ItemDone(x)'
  <2>1. Sole(db, x.device)
    BY <1>0, <1>1, <1>3, MovedSole, SourceIs DEF Login, Shaped
  <2>2. ItemDone(x)
    BY <2>1 DEF Progress, ItemDone
  <2> QED BY <1>1, <2>2, SparedDone
<1>4. ASSUME NEW n \in DOMAIN src.login PROVE DeviceInSync(n)'
  <2>1. PICK d \in Named(db, n) : d.status = "Active" /\ (job.tagged_only => d.ssot)
    BY <1>1 DEF Progress, DeviceInSync
  <2>2. PICK c \in db'.devices : Kept(d, c)
    BY <2>1 DEF Moved, Named, Login
  <2> QED BY <1>1, <2>1, <2>2 DEF DeviceInSync, Kept, Named, Login
<1>5. ASSUME NEW n \in DOMAIN src.login, WasTagged(n), NEW c \in Named(db', n) PROVE c.ssot
  BY <1>5 DEF Moved, Named, Progress, Kept
<1>6. \A n : WasTagged(n)' = WasTagged(n)
  BY DEF WasTagged
<1>7. OneEach'
  BY DEF OneEach
<1> QED BY <1>1, <1>2, <1>3, <1>4, <1>5, <1>6, <1>7 DEF Progress, ItemDone

LEMMA DeleteGroupRight ==
  ASSUME Inv, CleanInv, DeleteGroup
  PROVE  CleanInv'
<1>1. /\ TypeOK /\ Good(db, next_id) /\ Shaped(db, next_id) /\ Progress /\ diff = {}
      /\ pc \in {"interface", "device"} /\ pc' = (IF pc = "interface" THEN "device" ELSE "done")
      /\ objects_to_delete' = [objects_to_delete EXCEPT ![pc] = {}]
      /\ UNCHANGED <<base, next_id, job, src, diff, aux_last>>
      /\ db \in Database /\ src \in Snapshots /\ next_id \in Id
      /\ objects_to_delete \in [Groups -> SUBSET Id]
      /\ pc = "device" => NoneQueued("interface")
  BY DEF DeleteGroup, Inv, CleanInv, TypeOK
<1>2. /\ objects_to_delete' \in [Groups -> SUBSET Id]
      /\ \A k \in {"interface", "device"} : objects_to_delete'[k] \subseteq objects_to_delete[k]
      /\ objects_to_delete'["interface"] = {}
      /\ pc = "device" => objects_to_delete'["device"] = {}
      /\ pc = "interface" => objects_to_delete'["device"] = objects_to_delete["device"]
  BY <1>1 DEF Groups, NoneQueued
<1> SUFFICES Progress' /\ Shaped(db', next_id)
  BY <1>1, <1>2 DEF CleanInv, NoneQueued
<1>3. CASE job.safe
  <2>1. db' = db
    BY <1>3 DEF DeleteGroup
  <2>2. Moved(db, db', next_id) /\ \A x : Spares(db, db', x)
    BY <2>1, NothingMoved
  <2> QED BY <1>1, <1>2, <1>3, <2>1, <2>2, GroupProgress
<1>4. CASE ~ job.safe /\ pc = "interface"
  <2>1. PICK I \in SUBSET db.interfaces : I = {i \in db.interfaces : i.id \in objects_to_delete["interface"]}
    OBVIOUS
  <2>2. PICK E : E = db' /\ E = WithoutInterfaces(db, I)
    BY <1>4, <2>1 DEF DeleteGroup
  <2>3. PICK A : A = AddressesIn(db, I)
    OBVIOUS
  <2>4. /\ E.interfaces = db.interfaces \ I /\ E.addresses = db.addresses \ A
        /\ E.devices = UnlinkedRows(db, A, {})
    BY <1>1, <2>2, <2>3, InterfacesGone
  <2>5. \A d \in db.devices : d.id \in {} => d.name \notin Login
    OBVIOUS
  <2>6. \A i \in I : \A x \in Source(src) : i \notin Of(db, x)
    BY <1>1, <2>1 DEF Progress, QueueRight
  <2>7. Moved(db, E, next_id) /\ Shaped(E, next_id) /\ \A x \in Source(src) : Spares(db, E, x)
    BY <1>1, <2>3, <2>4, <2>5, <2>6, Withdrawn
  <2>8. Leaving'
    <3>1. Leaving
      BY <1>1, <1>4 DEF Progress
    <3>2. ASSUME NEW d \in db'.devices, d.name \notin Login, job.tagged_only => d.ssot
          PROVE  d.id \in objects_to_delete'["device"]
      BY <1>1, <1>2, <1>4, <2>2, <2>7, <3>1, <3>2, LeavingDevice DEF At
    <3>3. ASSUME NEW d \in db'.devices, NEW i \in InterfacesOf(db', d), d.name \in Login, Sole(db', d.name),
                 WasTagged(d.name), ~ IsItem(src, d.name, i.name)
          PROVE  FALSE
      <4>1. i.id \in objects_to_delete["interface"]
        BY <1>1, <2>2, <2>7, <3>1, <3>3, LeavingInterface DEF At
      <4> QED BY <2>1, <2>2, <2>4, <3>3, <4>1 DEF InterfacesOf
    <3>4. \A n : WasTagged(n)' = WasTagged(n)
      BY <1>1 DEF WasTagged
    <3> QED BY <1>1, <3>2, <3>3, <3>4 DEF Leaving, Login
  <2> QED BY <1>1, <1>2, <2>2, <2>7, <2>8, GroupProgress
<1>5. CASE ~ job.safe /\ pc = "device"
  <2>1. PICK S \in SUBSET db.devices : S = {d \in db.devices : d.id \in objects_to_delete["device"]}
    OBVIOUS
  <2>2. PICK E : E = db' /\ E = WithoutDevices(db, S)
    BY <1>5, <2>1 DEF DeleteGroup
  <2>3. PICK I \in SUBSET db.interfaces : I = InterfacesIn(db, S)
    BY DEF InterfacesOf, InterfacesIn
  <2>4. PICK A : A = AddressesIn(db, I)
    OBVIOUS
  <2>5. /\ E.interfaces = db.interfaces \ I /\ E.addresses = db.addresses \ A
        /\ E.devices = UnlinkedRows(db, A, Ids(S))
    BY <1>1, <2>2, <2>3, <2>4, DevicesGone
  <2>6. ASSUME NEW d \in db.devices, d.id \in Ids(S) PROVE d.name \notin Login
    BY <1>1, <2>1, <2>6 DEF Ids, Progress, QueueRight, Login
  <2>7. ASSUME NEW i \in I, NEW x \in Source(src), i \in Of(db, x) PROVE FALSE
    <3>1. PICK d \in S : i \in InterfacesOf(db, d)
      BY <2>3 DEF InterfacesIn
    <3>2. PICK c \in db.devices : c.name = x.device /\ c.id = i.device
      BY <2>7 DEF Of, Named
    <3>3. c.id \in Ids(S)
      BY <3>1, <3>2 DEF InterfacesOf, Ids
    <3> QED BY <1>1, <2>6, <3>2, <3>3, SourceIs DEF Login
  <2>8. Moved(db, E, next_id) /\ Shaped(E, next_id) /\ \A x \in Source(src) : Spares(db, E, x)
    BY <1>1, <2>4, <2>5, <2>6, <2>7, Withdrawn
  <2>9. Leaving'
    <3>1. Leaving
      BY <1>1, <1>5 DEF Progress
    <3>2. ASSUME NEW d \in db'.devices, d.name \notin Login, job.tagged_only => d.ssot
          PROVE  FALSE
      <4>1. d.id \in objects_to_delete["device"]
        BY <1>1, <1>5, <2>2, <2>8, <3>1, <3>2, LeavingDevice DEF At
      <4>2. PICK c \in db.devices : c.id \notin Ids(S) /\ d = Unlinked(c, Ids(A))
        BY <2>2, <2>5 DEF UnlinkedRows
      <4>3. d.id = c.id
        BY <1>1, <4>2, DatabaseIs, Unlinking
      <4> QED BY <2>1, <4>1, <4>2, <4>3 DEF Ids
    <3>3. ASSUME NEW d \in db'.devices, NEW i \in InterfacesOf(db', d), d.name \in Login, Sole(db', d.name),
                 WasTagged(d.name), ~ IsItem(src, d.name, i.name)
          PROVE  FALSE
      <4>1. i.id \in objects_to_delete["interface"]
        BY <1>1, <2>2, <2>8, <3>1, <3>3, LeavingInterface DEF At
      <4> QED BY <1>1, <1>5, <4>1 DEF NoneQueued
    <3>4. \A n : WasTagged(n)' = WasTagged(n)
      BY <1>1 DEF WasTagged
    <3> QED BY <1>1, <3>2, <3>3, <3>4 DEF Leaving, Login
  <2> QED BY <1>1, <1>2, <2>2, <2>8, <2>9, GroupProgress
<1> QED BY <1>1, <1>3, <1>4, <1>5

-----------------------------------------------------------------------------
(* All steps                                                               *)

LEMMA NotClean ==
  ASSUME JobsInv, pc # "idle", Raise
  PROVE  JobsInv'
BY DEF JobsInv, Raise, Forget, Clean

LEMMA SettledThen ==
  ASSUME Inv, pc = "done", CleanInv
  PROVE  Settled(src)
<1> SUFFICES ASSUME NEW x \in Source(src), x.primary, ListedOnce(src, x), Sole(db, x.device),
                    NEW i \in Of(db, x)
             PROVE  Leads(db, i, x.ip)
  BY DEF Settled
<1>1. ItemInSync(x) /\ diff = {}
  BY DEF CleanInv, Progress
<1>2. x.ip # None
  BY SourceIs DEF Inv, TypeOK
<1> QED BY <1>1, <1>2 DEF ItemInSync, Pends, At

LEMMA JobsInit == Init => JobsInv
<1> SUFFICES ASSUME Init PROVE JobsInv
  OBVIOUS
<1>1. /\ IsDatabase(db) /\ next_id = FirstId /\ \A r \in Rows(db) : r.id < FirstId
  BY InitialDbsAssumption DEF Init, Ids
<1>2. Keyed(db.devices) /\ NamedOnce(db)
  BY <1>1 DEF IsDatabase, Keyed, Rows, NamedOnce
<1>3. \A i \in db.interfaces : i.device < FirstId
  BY <1>1 DEF IsDatabase, Ids, Rows
<1> QED BY <1>1, <1>2, <1>3 DEF Init, JobsInv, CleanInv, Shaped, NoneQueued, Groups

LEMMA JobsNext == Inv /\ JobsInv /\ [Next]_vars => JobsInv'
<1> SUFFICES ASSUME Inv, JobsInv, [Next]_vars PROVE JobsInv'
  OBVIOUS
<1>1. CASE StartJob
  <2>1. run \in Nat
    BY DEF Inv, TypeOK
  <2>2. Clean' => Clean
    BY <1>1, <2>1 DEF StartJob, Clean
  <2>3. ASSUME CleanInv PROVE CleanInv'
    <3>1. Shaped(db, next_id) /\ NoneQueued("interface") /\ NoneQueued("device") /\ db = base
      BY <1>1, <2>3 DEF StartJob, CleanInv
    <3>2. (aux_last # None => Settled(aux_last))'
      BY <1>1, <2>3 DEF StartJob, CleanInv, Settled
    <3> QED BY <1>1, <3>1, <3>2 DEF StartJob, CleanInv, NoneQueued
  <2> QED BY <1>1, <2>1, <2>2, <2>3 DEF JobsInv, StartJob
<1>2. CASE LoadTarget
  <2>1. Clean' = Clean /\ run' = run /\ pc = "target" /\ pc' \in {"sync", "done"} /\ next_id' = next_id
        /\ db' = db /\ (pc' = "done" => diff' = {}) /\ objects_to_delete' = objects_to_delete
    BY <1>2 DEF LoadTarget, Clean
  <2>2. ASSUME CleanInv PROVE CleanInv'
    <3>1. Shaped(db, next_id) /\ NoneQueued("interface") /\ NoneQueued("device")
      BY <2>1, <2>2 DEF CleanInv
    <3>2. Progress'
      BY <1>2, <2>1, <2>2, LoadRight DEF CleanInv, Inv
    <3> QED BY <2>1, <3>1, <3>2 DEF CleanInv, NoneQueued
  <2> QED BY <2>1, <2>2 DEF JobsInv
<1>3. CASE SyncElement
  <2>1. pc = "sync"
    BY <1>3 DEF SyncElement
  <2>2. CASE Raise
    BY <2>1, <2>2, NotClean
  <2>3. CASE ~ Raise
    <3>1. Went
      <4>1. TypeOK /\ DiffOK /\ Goods /\ job \in Option
        BY <2>1 DEF Inv, TypeOK, Goods
      <4> QED BY <1>3, <2>3, <4>1, ElementKeeps
    <3>2. Clean' = Clean /\ pc' = "sync" /\ run' = run
      BY <2>1, <3>1 DEF Went, Clean
    <3>3. ASSUME CleanInv PROVE CleanInv'
      <4>1. Result
        BY <1>3, <2>3, <3>3, ElementRight
      <4> QED BY <3>2, <4>1 DEF Result, CleanInv
    <3> QED BY <2>1, <3>2, <3>3 DEF JobsInv
  <2> QED BY <2>2, <2>3
<1>4. CASE SyncComplete
  <2>1. Clean' = Clean /\ run' = run /\ pc = "sync" /\ pc' = "interface" /\ diff = {} /\ diff' = {}
        /\ UNCHANGED <<db, base, next_id, run, edits, job, src, diff, objects_to_delete, aux_last>>
    BY <1>4 DEF SyncComplete, Clean
  <2>2. ASSUME CleanInv PROVE CleanInv'
    <3>1. Shaped(db, next_id)' /\ Progress
      BY <2>1, <2>2 DEF CleanInv
    <3>2. Progress'
      BY <2>1, <3>1 DEF Progress, Expected, DeviceInSync, ItemInSync, PrimaryInSync, QueueRight, Leaving,
                       At, Created, Pends, WasTagged, OneEach
    <3> QED BY <2>1, <3>1, <3>2 DEF CleanInv
  <2> QED BY <2>1, <2>2 DEF JobsInv
<1>5. CASE DeleteGroup
  <2>1. Clean' = Clean /\ run' = run /\ pc # "idle" /\ pc' # "idle"
    BY <1>5 DEF DeleteGroup, Clean
  <2> QED BY <1>5, <2>1, DeleteGroupRight DEF JobsInv
<1>6. CASE FinishJob
  <2>1. pc = "done"
    BY <1>6 DEF FinishJob
  <2>2. CASE Raise
    BY <2>1, <2>2, NotClean
  <2>3. CASE Forget /\ base' = db /\ Remember /\ UNCHANGED <<db, next_id, run, edits, objects_to_delete>>
    <3>1. run \in Nat /\ run > 0 /\ pc' = "idle"
      BY <2>1, <2>3 DEF Inv, TypeOK, JobsInv, Forget
    <3>2. Clean' => Clean
      BY <2>1, <2>3, <3>1 DEF Clean, Remember
    <3>3. ASSUME CleanInv PROVE CleanInv'
      <4>1. Settled(src) /\ NoneQueued("interface") /\ NoneQueued("device") /\ Shaped(db, next_id)
        BY <2>1, <3>3, SettledThen DEF CleanInv
      <4>2. aux_last' \in {src, None}
        BY <2>3 DEF Remember
      <4>3. \A S : Settled(S)' <=> Settled(S)
        BY <2>3 DEF Settled
      <4>4. aux_last' # None => Settled(aux_last)'
        <5>1. ASSUME aux_last' = src PROVE Settled(aux_last)'
          BY <2>3, <4>1, <5>1 DEF Settled
        <5> QED BY <4>2, <5>1
      <4> QED BY <2>3, <3>1, <4>1, <4>4 DEF CleanInv, NoneQueued
    <3> QED BY <3>1, <3>2, <3>3 DEF JobsInv
  <2> QED BY <1>6, <2>2, <2>3 DEF FinishJob
<1>7. CASE UserDeletesAddress \/ UserDeletesInterface \/ UserUntags \/ UserSetsPrimary
  <2>1. edits' = edits + 1 /\ edits \in Nat /\ pc' = pc /\ run' = run
    BY <1>7 DEF UserDeletesAddress, UserDeletesInterface, UserUntags, UserSetsPrimary, Edit, Inv, TypeOK
  <2> QED BY <2>1 DEF JobsInv, Clean
<1>8. CASE UNCHANGED vars
  BY <1>8 DEF vars, JobsInv, Clean, CleanInv, Shaped, NamedOnce, NoneQueued, Progress, Expected,
              DeviceInSync, ItemInSync, PrimaryInSync, QueueRight, Leaving, At, Created, Pends, WasTagged, Settled,
              OneEach
<1> QED BY <1>1, <1>2, <1>3, <1>4, <1>5, <1>6, <1>7, <1>8 DEF Next, JobStep

-----------------------------------------------------------------------------
(* The second job with a snapshot                                          *)

(* What has been reached when a second job has completed: the two sides    *)
(* agree, and nothing waits any more.                                      *)
LEMMA AgainThen ==
  ASSUME Inv, JobsInv, Again
  PROVE  /\ src \in Snapshots /\ job \in Option /\ db \in Database
         /\ Shaped(db, next_id) /\ Progress
         /\ \A m, k : At(m, k) = {}
         /\ NoneQueued("interface") /\ NoneQueued("device")
         /\ \A n : Sole(db, n)
         /\ \A n \in DOMAIN src.login : \E d \in Named(db, n) :
              d.status = "Active" /\ (job.tagged_only => d.ssot)
         /\ \A x \in Source(src) : ItemInSync(x) /\ (x.primary /\ ListedOnce(src, x) => Reaches(db, x))
<1>1. src \in Snapshots /\ job \in Option /\ db \in Database /\ pc = "done" /\ aux_last = src /\ edits = 0
  BY DEF Inv, TypeOK, Again, Completed
<1>2. Clean
  BY <1>1, SnapshotsAssumption DEF Clean
<1>3. CleanInv
  BY <1>2 DEF JobsInv
<1>4. \A m, k : At(m, k) = {}
  BY <1>1, <1>3 DEF CleanInv, At
<1>5. \A n : Sole(db, n)
  BY DEF Again, Sole, Single, Named
<1>6. Shaped(db, next_id) /\ Progress /\ NoneQueued("interface") /\ NoneQueued("device")
  BY <1>1, <1>3 DEF CleanInv
<1>7. \A n \in DOMAIN src.login : \E d \in Named(db, n) : d.status = "Active" /\ (job.tagged_only => d.ssot)
  BY <1>4, <1>6 DEF Progress, DeviceInSync
<1>8. \A x \in Source(src) : ItemInSync(x) /\ (x.primary /\ ListedOnce(src, x) => Reaches(db, x))
  BY <1>1, <1>4, <1>5, <1>6 DEF Progress, PrimaryInSync, Pends
<1> QED BY <1>1, <1>4, <1>5, <1>6, <1>7, <1>8

LEMMA SetsPrimary ==
  ASSUME Inv, JobsInv
  PROVE  SecondRunSetsPrimary
<1> SUFFICES ASSUME Again, NEW x \in Source(src), x.primary, ListedOnce(src, x)
             PROVE  \E d \in db.devices : \E a \in db.addresses :
                      d.name = x.device /\ a.host = x.ip /\ a.id \in Primaries(d)
  BY DEF SecondRunSetsPrimary
<1>1. PICK d \in Named(db, x.device) : \E i \in InterfacesOf(db, d) : \E a \in AddressesOf(db, i) :
             i.name = x.name /\ a.host = x.ip /\ a.id \in Primaries(d)
  BY AgainThen DEF Reaches
<1>2. PICK a \in db.addresses : a.host = x.ip /\ a.id \in Primaries(d)
  BY <1>1 DEF AddressesOf
<1> QED BY <1>1, <1>2 DEF Named

(* An element that a third job would find.                                 *)
Bearable(e) ==
  CASE e.action = "create" -> FALSE
    [] e.action = "delete" ->
         job.safe \/ (e.name # 0 /\ \E d \in base.devices : d.name = e.device /\ ~ d.ssot)
    [] e.action = "update" ->
         /\ "status" \notin e.attrs /\ "mtu" \notin e.attrs
         /\ "text" \in e.attrs => ~ IsGiven(e.item.text)
         /\ "ip" \in e.attrs => e.item.ip = None
         /\ "primary" \in e.attrs => Hidden(e.item)

LEMMA Settles ==
  ASSUME Inv, JobsInv
  PROVE  SecondRunSettles
<1> SUFFICES ASSUME Again, \A x \in Source(src) : x.ip # None => ListedOnce(src, x),
                    NEW L \in Loads(db, job.tagged_only), NEW e \in DiffFrom(src, db, L)
             PROVE  Bearable(e)
  BY DEF SecondRunSettles, Remaining, Bearable
<1>1. /\ src \in Snapshots /\ job \in Option /\ db \in Database /\ Shaped(db, next_id)
      /\ Progress /\ \A m, k : At(m, k) = {}
      /\ NoneQueued("interface") /\ NoneQueued("device") /\ \A n : Sole(db, n)
      /\ \A n \in DOMAIN src.login : \E d \in Named(db, n) :
           d.status = "Active" /\ (job.tagged_only => d.ssot)
      /\ \A x \in Source(src) : ItemInSync(x) /\ (x.primary /\ ListedOnce(src, x) => Reaches(db, x))
  BY AgainThen
<1>2. /\ L \subseteq db.devices /\ \A d \in L : job.tagged_only => d.ssot
      /\ \A d \in db.devices : (job.tagged_only => d.ssot) => d \in L
  BY <1>1, ScopeLoaded
<1>3. ASSUME NEW n \in DOMAIN src.login, NEW c \in db.devices, c.name = n
      PROVE  c.status = "Active" /\ c \in L
  <2>1. PICK d \in Named(db, n) : d.status = "Active" /\ (job.tagged_only => d.ssot)
    BY <1>1
  <2>2. c = d
    BY <1>1, <1>3, <2>1 DEF Sole, Single, Named
  <2> QED BY <1>2, <1>3, <2>1, <2>2
<1>4. ASSUME NEW d \in L, d.name \notin DOMAIN src.login PROVE job.safe
  BY <1>1, <1>2, <1>4 DEF Progress, Leaving, NoneQueued
<1>5. CASE \E n \in DOMAIN src.login : (\A d \in L : d.name # n) /\ e = On(n, "create", {})
  <2>1. PICK n \in DOMAIN src.login : \A d \in L : d.name # n
    BY <1>5
  <2>2. PICK d \in db.devices : d.name = n
    BY <1>1 DEF Named
  <2> QED BY <1>3, <2>1, <2>2
<1>6. CASE \E d \in L : d.name \notin DOMAIN src.login /\ e = On(d.name, "delete", {})
  <2>1. job.safe /\ e.action = "delete"
    BY <1>4, <1>6 DEF On
  <2> QED BY <2>1 DEF Bearable
<1>7. CASE \E d \in L : d.name \in DOMAIN src.login /\ d.status # "Active"
                        /\ e = On(d.name, "update", {"status"})
  BY <1>2, <1>3, <1>7
<1>8. CASE \E x \in Source(src) : /\ \A y \in Models(db, L) : ~ SamePlace(y, x)
                                  /\ e = About(x, "create", {}, x)
  <2>1. PICK x \in Source(src) : \A y \in Models(db, L) : ~ SamePlace(y, x)
    BY <1>8
  <2>2. PICK i \in Of(db, x) : TRUE
    BY <1>1 DEF ItemInSync, Created
  <2>3. PICK d \in db.devices : d.name = x.device /\ d.id = i.device
    BY DEF Of, Named
  <2>4. d \in L /\ i \in InterfacesOf(db, d) /\ i.name = x.name
    BY <1>1, <1>3, <2>3, SourceIs DEF Of, InterfacesOf
  <2>5. ModelOf(db, d, i) \in Models(db, L)
    BY <2>4, ModelsAre
  <2>6. SamePlace(ModelOf(db, d, i), x)
    BY <1>1, <2>3, <2>4, ModelIs, DatabaseIs DEF SamePlace
  <2> QED BY <2>1, <2>5, <2>6
<1>9. CASE \E y \in Models(db, L) : /\ \A x \in Source(src) : ~ SamePlace(x, y)
                                    /\ e = About(y, "delete", {}, None)
  <2>1. PICK y \in Models(db, L) : /\ \A x \in Source(src) : ~ SamePlace(x, y)
                                   /\ e = About(y, "delete", {}, None)
    BY <1>9
  <2>2. PICK d \in L : \E i \in InterfacesOf(db, d) : y = ModelOf(db, d, i)
    BY ModelsAre
  <2>3. PICK i \in InterfacesOf(db, d) : y = ModelOf(db, d, i)
    BY <2>2
  <2>4. y.device = d.name /\ y.name = i.name /\ y.name # 0
    BY <1>1, <1>2, <2>3, ModelIs, DatabaseIs
  <2>5. e.action = "delete" /\ e.device = d.name /\ e.name # 0
    BY <2>1, <2>4 DEF About
  <2>6. ASSUME ~ job.safe PROVE \E c \in base.devices : c.name = d.name /\ ~ c.ssot
    <3>1. d.name \in DOMAIN src.login
      BY <1>4, <2>6
    <3>2. ~ IsItem(src, d.name, i.name)
      BY <2>1, <2>4 DEF IsItem, SamePlace
    <3>3. ~ WasTagged(d.name)
      BY <1>1, <1>2, <2>6, <3>1, <3>2 DEF Progress, Leaving, NoneQueued
    <3> QED BY <3>3 DEF WasTagged, Named
  <2> QED BY <2>5, <2>6 DEF Bearable
<1>10. CASE \E x \in Source(src), y \in Models(db, L) :
              SamePlace(y, x) /\ e = About(x, "update", Changed(x, y), x)
  <2>1. PICK x \in Source(src) : \E y \in Models(db, L) :
               SamePlace(y, x) /\ e = About(x, "update", Changed(x, y), x)
    BY <1>10
  <2>2. PICK y \in Models(db, L) : SamePlace(y, x) /\ e = About(x, "update", Changed(x, y), x)
    BY <2>1
  <2>3. PICK d \in L : \E i \in InterfacesOf(db, d) : y = ModelOf(db, d, i)
    BY ModelsAre
  <2>4. PICK i \in InterfacesOf(db, d) : y = ModelOf(db, d, i)
    BY <2>3
  <2>5. d \in db.devices /\ d \in DeviceRow /\ i \in db.interfaces /\ i.device = d.id
    BY <1>1, <1>2, DatabaseIs DEF InterfacesOf
  <2>6. /\ y.device = d.name /\ y.name = i.name /\ y.text = i.text /\ y.status = d.status
        /\ y.mtu = (IF i.mtu = None THEN DefaultMtu ELSE i.mtu)
        /\ \A h : Leads(db, i, h) => y.ip = h
        /\ y.primary \in BOOLEAN
        /\ ~ y.primary => \A a \in FirstAddress(db, i) : a.id \in Primaries(d) => d.primary_ip4 # None
    BY <1>1, <2>4, <2>5, ModelIs
  <2>7. d.name = x.device /\ i.name = x.name /\ i \in Of(db, x) /\ d.status = "Active"
    <3>1. d.name = x.device /\ i.name = x.name
      BY <2>2, <2>6 DEF SamePlace
    <3> QED BY <1>1, <1>3, <2>5, <3>1, SourceIs DEF Of, Named
  <2>8. /\ x.mtu = y.mtu /\ (IsGiven(x.text) => x.text = y.text)
        /\ (x.ip # None => Leads(db, i, x.ip) /\ y.ip = x.ip)
    BY <1>1, <2>6, <2>7 DEF ItemInSync, Pends
  <2>9. ASSUME x.primary, ~ y.primary PROVE d.primary_ip4 # None
    <3>1. x.ip # None /\ ListedOnce(src, x)
      BY <1>1, <2>9, SourceIs
    <3>2. PICK c \in Named(db, x.device) : \E k \in InterfacesOf(db, c) : \E a \in AddressesOf(db, k) :
                 k.name = x.name /\ a.host = x.ip /\ a.id \in Primaries(c)
      BY <1>1, <2>9, <3>1 DEF Reaches
    <3>3. c = d
      BY <1>1, <2>5, <2>7, <3>2 DEF Sole, Single, Named
    <3>4. PICK k \in InterfacesOf(db, d) : \E a \in AddressesOf(db, k) :
                 k.name = x.name /\ a.host = x.ip /\ a.id \in Primaries(d)
      BY <3>2, <3>3
    <3>5. k = i
      BY <1>1, <2>5, <2>7, <3>4 DEF Shaped, NamedOnce, InterfacesOf
    <3>6. PICK a \in AddressesOf(db, i) : a.host = x.ip /\ a.id \in Primaries(d)
      BY <3>4, <3>5
    <3>7. a \in FirstAddress(db, i)
      BY <2>8, <3>1, <3>6 DEF Leads, FirstAddress
    <3> QED BY <2>6, <2>9, <3>6, <3>7
  <2>10. /\ e.action = "update" /\ e.item = x /\ e.attrs = Changed(x, y)
    BY <2>2 DEF About
  <2>11. "primary" \in e.attrs => Hidden(x)
    <3> SUFFICES ASSUME "primary" \in e.attrs, x.primary
                 PROVE  \E c \in db.devices : c.name = x.device /\ c.primary_ip4 # None
      BY DEF Hidden
    <3>1. x.primary # y.primary
      BY <2>10, ChangedIs
    <3>2. x.primary \in BOOLEAN
      BY <1>1, SourceIs DEF Item
    <3>3. ~ y.primary
      BY <2>6, <3>1, <3>2, Zenon
    <3> QED BY <2>5, <2>7, <2>9, <3>3
  <2>12. /\ "status" \notin e.attrs /\ "mtu" \notin e.attrs
         /\ "text" \in e.attrs => ~ IsGiven(x.text)
         /\ "ip" \in e.attrs => x.ip = None
    BY <2>6, <2>7, <2>8, <2>10, ChangedIs
  <2> QED BY <2>10, <2>11, <2>12 DEF Bearable
<1> QED BY <1>5, <1>6, <1>7, <1>8, <1>9, <1>10, DiffOnly

-----------------------------------------------------------------------------
(* Theorems                                                                *)

(* Every database the plugin reaches, committed or not, has rows of their  *)
(* types, primary keys used once, and no device with a primary address     *)
(* that belongs to another device; the committed one has no primary        *)
(* address that is missing; and what a running job has made of it is what  *)
(* its options allow.                                                      *)
THEOREM InterfaceInvariant == Spec => []Inv
BY InitInv, NextInv, PTL DEF Spec

(* Every variable of the interface sync has its type.                      *)
THEOREM InterfaceTypes == Spec => []TypeOK
<1>1. Inv => TypeOK
  BY DEF Inv
<1> QED BY <1>1, InterfaceInvariant, PTL

(* What is committed never has a primary address that is not an address of *)
(* the device itself: create_ip (nbutils.py:115) takes addresses over from *)
(* other interfaces and update saves a device it fetched before, but       *)
(* validation and the foreign keys let no such row into a commit.          *)
THEOREM CommittedPrimaryIsOwnHolds == Spec => []CommittedPrimaryIsOwn
<1>1. Inv => CommittedPrimaryIsOwn
  <2> SUFFICES ASSUME Inv, NEW d \in base.devices, NEW p \in Primaries(d)
               PROVE  \E i \in InterfacesOf(base, d) : \E a \in AddressesOf(base, i) : a.id = p
    BY DEF CommittedPrimaryIsOwn, PrimaryIsOwn
  <2>1. PICK a \in base.addresses : a.id = p
    BY DEF Inv, Dangling, Ids
  <2>2. OwnedBy(base, a, d.id)
    BY <2>1 DEF Inv, Good, OwnOrGone
  <2> QED BY <2>1, <2>2 DEF OwnedBy, InterfacesOf, AddressesOf
<1> QED BY <1>1, InterfaceInvariant, PTL

(* An interface to which the job has given an address has that one only.   *)
THEOREM OnlyTheNewAddressHolds == Spec => []OnlyTheNewAddress
<1>1. Inv => OnlyTheNewAddress
  <2> SUFFICES ASSUME Inv, NEW i \in db.interfaces, NEW a \in AddressesOf(db, i),
                      a \notin base.addresses, a.status = "Active"
               PROVE  AddressesOf(db, i) = {a}
    BY DEF OnlyTheNewAddress
  <2>1. a \in db.addresses /\ db # base
    BY DEF AddressesOf
  <2>2. Alone(base, db)
    BY <2>1 DEF Inv, Since
  <2> QED BY <2>2 DEF Alone, AddressesOf
<1> QED BY <1>1, InterfaceInvariant, PTL

(* A job in safe delete mode loses no device and no interface, and where   *)
(* duplicates are allowed an address only if its interface has a new one.  *)
THEOREM SafeRunKeepsInterfacesHolds == Spec => []SafeRunKeepsInterfaces
<1>1. Inv => SafeRunKeepsInterfaces
  BY DEF Inv, Since, KeepsRows, InPlace, SafeRunKeepsInterfaces, Running
<1> QED BY <1>1, InterfaceInvariant, PTL

(* A job is a transaction: the safety part of the abstract specification   *)
(* SyncTransaction, with the committed rows and the options of the job.    *)
(* Every step of a job but the last is a stutter or an abort there, the    *)
(* last one commits what the options promise at once.                      *)
THEOREM JobIsTransaction == Spec => T!SafeSpec
<1>1. Init => T!Init
  BY DEF Init, T!Init
<1>2. Inv /\ Inv' /\ [Next]_vars => [T!Next]_T!vars
  <2> SUFFICES ASSUME Inv, Inv', [Next]_vars PROVE T!Next \/ UNCHANGED <<base, job, edits>>
    BY DEF T!vars
  <2>1. PrimaryIsOwn(base')
    <3> SUFFICES ASSUME NEW d \in base'.devices, NEW p \in Primaries(d)
                 PROVE  \E i \in InterfacesOf(base', d) : \E a \in AddressesOf(base', i) : a.id = p
      BY DEF PrimaryIsOwn
    <3>1. PICK a \in base'.addresses : a.id = p
      BY DEF Inv, Dangling, Ids
    <3>2. OwnedBy(base', a, d.id)
      BY <3>1 DEF Inv, Good, OwnOrGone
    <3> QED BY <3>1, <3>2 DEF OwnedBy, InterfacesOf, AddressesOf
  <2>2. CASE Raise /\ pc # "idle"
    <3>1. job # None /\ job' = None /\ UNCHANGED <<base, edits>>
      BY <2>2, OptionsAssumption DEF Inv, Raise, Forget
    <3> QED BY <3>1 DEF T!Next, T!Abort
  <2>3. CASE StartJob
    <3>1. job = None /\ job' \in Options /\ UNCHANGED <<base, edits>>
      BY <2>3 DEF Inv, TypeOK, StartJob
    <3> QED BY <3>1 DEF T!Next, T!Begin
  <2>4. CASE FinishJob /\ ~ Raise
    <3>1. /\ job # None /\ job' = None /\ base' = db /\ Since(base, db, job)
          /\ UNCHANGED edits
      BY <2>4, OptionsAssumption DEF Inv, FinishJob, Forget
    <3>2. JobPromise(job, base, base')
      BY <3>1 DEF Since, Marked, KeepsRows, JobPromise
    <3> QED BY <2>1, <3>1, <3>2 DEF T!Next, T!Commit
  <2>5. CASE SyncElement
    <3>1. /\ pc = "sync" /\ TypeOK /\ DiffOK /\ Goods /\ job \in Option
      BY <2>5 DEF Inv, TypeOK, Goods, SyncElement
    <3> QED BY <2>2, <2>5, <3>1, ElementKeeps DEF Went
  <2>6. CASE LoadTarget \/ SyncComplete \/ DeleteGroup \/ UNCHANGED vars
    BY <2>6 DEF LoadTarget, SyncComplete, DeleteGroup, vars
  <2>7. CASE UserDeletesAddress \/ UserDeletesInterface \/ UserUntags \/ UserSetsPrimary
    <3>1. edits' = edits + 1 /\ UNCHANGED job
      BY <2>7 DEF UserDeletesAddress, UserDeletesInterface, UserUntags, UserSetsPrimary, Edit
    <3> QED BY <2>1, <3>1 DEF T!Next, T!Edit
  <2> QED BY <2>2, <2>3, <2>4, <2>5, <2>6, <2>7 DEF Next, JobStep, FinishJob
<1> QED BY <1>1, <1>2, InterfaceInvariant, PTL DEF Spec, T!SafeSpec

(* What a job must still do, and what it has done, whichever of its        *)
(* elements are synced: as long as every job has completed and no user has *)
(* edited anything, an interface or address of the source is in the        *)
(* database or has an element left that will write it, and the queues of   *)
(* sync_complete (adapter_nautobot.py:62) hold rows that are not in the    *)
(* source, and outside the safe delete mode all of them.                   *)
THEOREM JobsInvariant == Spec => []JobsInv
BY JobsInit, JobsNext, InterfaceInvariant, PTL DEF Spec

(* One job may leave a device without a primary address: update and create *)
(* (diffsync_models.py:286) save the device they fetched before the        *)
(* address that was deleted or moved. The second job with the same         *)
(* snapshot sets it to the address IP Fabric logs in with.                 *)
THEOREM SecondRunSetsPrimaryHolds == Spec => []SecondRunSetsPrimary
<1>1. Inv /\ JobsInv => SecondRunSetsPrimary
  BY SetsPrimary
<1> QED BY <1>1, InterfaceInvariant, JobsInvariant, PTL

(* What a third job with the same snapshot would still find is only what   *)
(* update (diffsync_models.py:358) never writes, a value that counts as    *)
(* false, or what the options and the tag of the device keep from delete.  *)
THEOREM SecondRunSettlesHolds == Spec => []SecondRunSettles
<1>1. Inv /\ JobsInv => SecondRunSettles
  BY Settles
<1> QED BY <1>1, InterfaceInvariant, JobsInvariant, PTL
=============================================================================
