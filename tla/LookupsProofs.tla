--------------------------- MODULE LookupsProofs ----------------------------
(***************************************************************************)
(* Theorems about the rows that are looked up or made, for every set of    *)
(* inventories, every slugify and every number of edits.                   *)
(***************************************************************************)
EXTENDS Lookups, TLAPS

Stamp  == "ssot-synced-from-ipfabric"
SiteId == "ipfabric-site-id"

(* The field of the sync date is for all kinds of rows or missing. A       *)
(* device type stands for a device that some inventory lists.              *)
FieldOK == /\ fields \in [{Stamp, SiteId} -> SUBSET Kinds]
           /\ fields[Stamp] \in {{}, Kinds} /\ stamped \subseteq fields[Stamp]
ListedType(t) == \E I \in Inventories : \E n \in DOMAIN I : t = NewType(I[n])
TypesOK == inventory \in Inventories /\ \A t \in types : ListedType(t)

-----------------------------------------------------------------------------
(* Fields                                                                  *)

LEMMA CreateCustomFieldMakes ==
  ASSUME NEW f \in [{Stamp, SiteId} -> SUBSET Kinds], f[Stamp] \in {{}, Kinds},
         NEW field \in {Stamp, SiteId}, NEW models \in SUBSET Kinds,
         field = Stamp => models = Kinds
  PROVE  /\ CreateCustomField(f, field, models) \in [{Stamp, SiteId} -> SUBSET Kinds]
         /\ CreateCustomField(f, field, models)[Stamp] \in {{}, Kinds}
         /\ field = Stamp => CreateCustomField(f, field, models)[Stamp] = Kinds
         /\ field # Stamp => CreateCustomField(f, field, models)[Stamp] = f[Stamp]
BY DEF CreateCustomField, Stamp, SiteId

(* Whatever row tag_object is given, the field is for all kinds after it.  *)
LEMMA WithFieldMakes ==
  ASSUME NEW f \in [{Stamp, SiteId} -> SUBSET Kinds], f[Stamp] \in {{}, Kinds}, NEW kind
  PROVE  /\ WithField(f, kind) \in [{Stamp, SiteId} -> SUBSET Kinds]
         /\ WithField(f, kind)[Stamp] = Kinds
<1>1. CASE f[Stamp] # {}
  BY <1>1 DEF WithField, Stamp
<1>2. CASE f[Stamp] = {}
  <2>1. WithField(f, kind) = CreateCustomField(f, Stamp, Kinds)
    BY <1>2 DEF WithField, Stamp
  <2> QED BY <2>1, CreateCustomFieldMakes
<1> QED BY <1>1, <1>2

LEMMA TagRowsKeeps ==
  ASSUME FieldOK, NEW first \in Kinds, NEW kinds \in SUBSET Kinds, TagRows(first, kinds)
  PROVE  FieldOK'
<1>1. fields' = WithField(fields, first) /\ stamped' = kinds \cup {first}
  BY DEF TagRows
<1> QED BY <1>1, WithFieldMakes DEF FieldOK

-----------------------------------------------------------------------------
(* Devices                                                                 *)

(* What syncing a device does to types and fields.                         *)
LEMMA CreateDeviceKeeps ==
  ASSUME FieldOK, TypesOK, NEW n \in DOMAIN inventory, CreateDevice(n, inventory[n])
  PROVE  FieldOK' /\ TypesOK'
<1> DEFINE item  == inventory[n]
           found == FirstTypes(item.model)
<1>1. CASE Raise({n})
  BY <1>1 DEF Raise, FieldOK, TypesOK, catalogue
<1>2. CASE ~Raise({n})
  <2>1. PICK t \in found \cup (IF found = {} THEN {NewType(item)} ELSE {}) :
          /\ types' = types \cup {t} /\ inventory' = inventory
          /\ \E first \in Kinds, kinds \in SUBSET Kinds : TagRows(first, kinds)
    <3> DEFINE has_role == RoleNamed(DEFAULT_DEVICE_ROLE) # {}
               first == IF found = {} THEN "Manufacturer" ELSE "Device"
               kinds == (IF found = {} THEN {"DeviceType"} ELSE {})
                          \cup (IF has_role THEN {} ELSE {"DeviceRole"}) \cup {"Device"}
    <3>1. first \in Kinds /\ kinds \in SUBSET Kinds
      BY DEF Kinds
    <3>2. \E t \in found \cup (IF found = {} THEN {NewType(item)} ELSE {}) :
            types' = types \cup {t} /\ TagRows(first, kinds) /\ inventory' = inventory
      BY <1>2 DEF CreateDevice
    <3> QED BY <3>1, <3>2
  <2>2. ListedType(t)
    <3>1. CASE t \in found
      BY <3>1 DEF FirstTypes, TypesBySlug, TypesOK
    <3>2. CASE t = NewType(item)
      BY <3>2 DEF ListedType, TypesOK
    <3> QED BY <2>1, <3>1, <3>2
  <2>3. FieldOK'
    BY <2>1, TagRowsKeeps
  <2> QED BY <2>1, <2>2, <2>3 DEF TypesOK, ListedType
<1> QED BY <1>1, <1>2

LEMMA UpdateDeviceKeeps ==
  ASSUME FieldOK, TypesOK, NEW n \in DOMAIN inventory, UpdateDevice(n, inventory[n])
  PROVE  FieldOK' /\ TypesOK'
<1> DEFINE item  == inventory[n]
           attrs == Attrs(n, item)
           typed == "model" \in attrs
           moved == "role" \in attrs
           first == IF typed THEN "Manufacturer" ELSE IF moved THEN "DeviceRole" ELSE "Device"
           kinds == {"Device"} \cup (IF typed THEN {"DeviceType"} ELSE {})
                               \cup (IF moved THEN {"DeviceRole"} ELSE {})
<1>1. CASE Raise({n})
  BY <1>1 DEF Raise, FieldOK, TypesOK, catalogue
<1>2. CASE ~Raise({n})
  <2>1. /\ types' = types \cup (IF typed THEN {NewType(item)} ELSE {})
        /\ TagRows(first, kinds) /\ inventory' = inventory
    BY <1>2 DEF UpdateDevice
  <2>2. first \in Kinds /\ kinds \in SUBSET Kinds
    BY DEF Kinds
  <2>3. FieldOK'
    BY <2>1, <2>2, TagRowsKeeps
  <2>4. ListedType(NewType(item))
    BY DEF ListedType, TypesOK
  <2> QED BY <2>1, <2>3, <2>4 DEF TypesOK, ListedType
<1> QED BY <1>1, <1>2

-----------------------------------------------------------------------------
(* Both invariants hold at first and with every step.                      *)
LEMMA InitOK == Init => FieldOK /\ TypesOK
BY DEF Init, FieldOK, TypesOK, Stamp, SiteId

LEMMA StepKeeps == FieldOK /\ TypesOK /\ [Next]_vars => FieldOK' /\ TypesOK'
<1> SUFFICES ASSUME FieldOK, TypesOK, [Next]_vars PROVE FieldOK' /\ TypesOK'
  OBVIOUS
<1> USE DEF catalogue
<1>0. CASE Raise({})
  BY <1>0 DEF Raise, FieldOK, TypesOK, ListedType
<1>1. CASE DatabaseReady
  <2> DEFINE f == CreateCustomField(fields, Stamp, Kinds)
  <2>1. fields' \in {fields, CreateCustomField(f, SiteId, {"Site"})} /\ stamped' = {}
    BY <1>1 DEF DatabaseReady, Stamp, SiteId
  <2>2. f \in [{Stamp, SiteId} -> SUBSET Kinds] /\ f[Stamp] \in {{}, Kinds}
    BY CreateCustomFieldMakes DEF FieldOK
  <2>3. {"Site"} \in SUBSET Kinds /\ SiteId # Stamp
    BY DEF Kinds, Stamp, SiteId
  <2> HIDE DEF f
  <2>4. FieldOK'
    BY <2>1, <2>2, <2>3, CreateCustomFieldMakes DEF FieldOK
  <2> QED BY <1>1, <2>4 DEF DatabaseReady, TypesOK, ListedType
<1>2. CASE CreateSite /\ ~ Raise({})
  <2> DEFINE f == CreateCustomField(fields, SiteId, {"Site"})
  <2>1. fields' = WithField(f, "Site") /\ stamped' = {"Site"}
    BY <1>2 DEF CreateSite, SiteId
  <2>2. {"Site"} \in SUBSET Kinds /\ SiteId # Stamp
    BY DEF Kinds, Stamp, SiteId
  <2>3. f \in [{Stamp, SiteId} -> SUBSET Kinds] /\ f[Stamp] \in {{}, Kinds}
    BY <2>2, CreateCustomFieldMakes DEF FieldOK
  <2> HIDE DEF f
  <2>4. FieldOK'
    BY <2>1, <2>2, <2>3, WithFieldMakes DEF FieldOK
  <2> QED BY <1>2, <2>4 DEF CreateSite, TypesOK, ListedType
<1>3. CASE Discover
  BY <1>3 DEF Discover, FieldOK, TypesOK, ListedType
<1>4. ASSUME NEW kind \in Kinds, TagOther(kind), ~ Raise({})
      PROVE  FieldOK' /\ TypesOK'
  <2>1. FieldOK'
    BY <1>4, TagRowsKeeps DEF TagOther
  <2> QED BY <1>4, <2>1 DEF TagOther, TypesOK, ListedType
<1>5. ASSUME NEW n \in DOMAIN inventory, SyncDevice(n)
      PROVE  FieldOK' /\ TypesOK'
  BY <1>5, CreateDeviceKeeps, UpdateDeviceKeeps DEF SyncDevice
<1>6. CASE EditTag \/ ChangeRole \/ MoveDevice \/ DeleteUnused
  BY <1>6 DEF EditTag, ChangeRole, MoveDevice, DeleteUnused, Edited, FieldOK, TypesOK, ListedType
<1>7. CASE DeleteField
  <2>1. PICK f \in DOMAIN fields : fields' = [fields EXCEPT ![f] = {}]
    BY <1>7 DEF DeleteField
  <2>2. stamped' = {} /\ inventory' = inventory /\ types' = types
    BY <1>7 DEF DeleteField, Edited
  <2> QED BY <2>1, <2>2 DEF FieldOK, TypesOK, ListedType
<1>8. CASE UNCHANGED vars
  BY <1>8 DEF vars, FieldOK, TypesOK, ListedType
<1> QED BY <1>0, <1>1, <1>2, <1>3, <1>4, <1>5, <1>6, <1>7, <1>8 DEF Next

LEMMA Inductive == Spec => [](FieldOK /\ TypesOK)
BY InitOK, StepKeeps, PTL DEF Spec

-----------------------------------------------------------------------------
(* The rows themselves: no two types of a vendor share model or slug, no   *)
(* two roles name or slug, and nothing refers to a row that is gone.       *)
RolesOK   == /\ roles \subseteq Role
             /\ \A r, s \in roles : r.name = s.name \/ r.slug = s.slug => r = s
Unique(S) == \A t, u \in S : t.vendor = u.vendor /\ (t.model = u.model \/ t.slug = u.slug) => t = u
CatalogOK == /\ makers \subseteq Vendors /\ types \subseteq Type /\ Unique(types)
             /\ \A t \in types : t.vendor \in makers
RoleNames == {r.name : r \in roles}
DevicesOK == /\ DOMAIN devices \subseteq Devices
             /\ devices \in [DOMAIN devices -> [type: types, role: RoleNames]]
TagStates == [Tags -> {"missing", "whole", "torn"}]
Others    == /\ inventory \in Inventories /\ tags \in TagStates
             /\ edits \in 0..MaxEdits /\ raised \subseteq Devices
RowsOK    == RolesOK /\ CatalogOK /\ DevicesOK /\ Others

(* What IP Fabric lists of a device makes a device type.                   *)
LEMMA ListedItem ==
  ASSUME Others, NEW n \in DOMAIN inventory
  PROVE  /\ n \in Devices /\ inventory[n] \in [vendor: Vendors, model: Models]
         /\ NewType(inventory[n]) \in Type
BY LookupsAssumption DEF Others, NewType, Type

(* A type that is not refused joins those there are.                       *)
LEMMA TypeJoins ==
  ASSUME CatalogOK, NEW item, NewType(item) \in Type, ~ TypeRefused(item),
         types' = types \cup {NewType(item)}, makers' = makers \cup {NewType(item).vendor}
  PROVE  CatalogOK'
<1> DEFINE t == NewType(item)
<1>1. \A u \in types : u.vendor = t.vendor /\ (u.model = t.model \/ u.slug = t.slug) => u = t
  BY DEF TypeRefused
<1>2. t \in Type /\ t.vendor \in Vendors
  BY DEF Type
<1> HIDE DEF t
<1>3. types' = types \cup {t} /\ makers' = makers \cup {t.vendor}
  BY DEF t
<1> QED BY <1>1, <1>2, <1>3 DEF CatalogOK, Unique

(* The plugin's role joins where no other has its name or its slug.        *)
LEMMA RoleJoins ==
  ASSUME RolesOK, ~ RoleRefused, roles' = roles \cup {MadeRole}
  PROVE  RolesOK' /\ RoleNames \subseteq RoleNames' /\ DEFAULT_DEVICE_ROLE \in RoleNames'
<1>1. /\ MadeRole \in Role /\ MadeRole.name = DEFAULT_DEVICE_ROLE
      /\ MadeRole.slug = DEFAULT_DEVICE_ROLE
  BY DEF MadeRole, Role, Names
<1>2. \A r \in roles : r.name = DEFAULT_DEVICE_ROLE \/ r.slug = DEFAULT_DEVICE_ROLE => r = MadeRole
  BY <1>1 DEF RoleRefused, RolesOK
<1> HIDE DEF MadeRole
<1>3. RolesOK'
  BY <1>1, <1>2 DEF RolesOK
<1> QED BY <1>1, <1>3 DEF RoleNames

LEMMA TagRowsTags == Others /\ (\E first, kinds : TagRows(first, kinds)) => tags' \in TagStates
BY DEF Others, TagRows, TagStates

LEMMA CreateKeepsRows ==
  ASSUME RowsOK, NEW n \in DOMAIN inventory, CreateDevice(n, inventory[n])
  PROVE  RowsOK'
<1> DEFINE item  == inventory[n]
           found == FirstTypes(item.model)
           has_role == RoleNamed(DEFAULT_DEVICE_ROLE) # {}
<1>i. n \in Devices /\ item \in [vendor: Vendors, model: Models] /\ NewType(item) \in Type
  BY ListedItem DEF RowsOK
<1>1. CASE Raise({n})
  BY <1>1, <1>i DEF Raise, RowsOK, RolesOK, CatalogOK, DevicesOK, Others, RoleNames, catalogue
<1>2. CASE ~Raise({n})
  <2>1. PICK t \in found \cup (IF found = {} THEN {NewType(item)} ELSE {}) :
          /\ types' = types \cup {t} /\ makers' = makers \cup {t.vendor}
          /\ roles' = roles \cup (IF has_role THEN {} ELSE {MadeRole})
          /\ devices' = [m \in DOMAIN devices \cup {n} |->
               IF m = n THEN [type |-> t, role |-> DEFAULT_DEVICE_ROLE] ELSE devices[m]]
          /\ \E first, kinds : TagRows(first, kinds)
          /\ raised' = {} /\ inventory' = inventory /\ edits' = edits
    BY <1>2 DEF CreateDevice
  <2>2. CatalogOK'
    <3>1. CASE t \in found
      <4>1. t \in types
        BY <3>1 DEF FirstTypes, TypesBySlug
      <4>2. types' = types /\ makers' = makers
        BY <2>1, <4>1 DEF RowsOK, CatalogOK
      <4> QED BY <4>2 DEF RowsOK, CatalogOK
    <3>2. CASE found = {}
      <4>1. ~ TypeRefused(item)
        BY <1>2, <3>2 DEF CreateDevice
      <4> QED BY <2>1, <3>2, <4>1, <1>i, TypeJoins DEF RowsOK
    <3> QED BY <2>1, <3>1, <3>2
  <2>3. RolesOK' /\ RoleNames \subseteq RoleNames' /\ DEFAULT_DEVICE_ROLE \in RoleNames'
    <3>1. CASE has_role
      BY <2>1, <3>1 DEF RowsOK, RolesOK, RoleNames, RoleNamed
    <3>2. CASE ~has_role
      <4>1. ~ RoleRefused
        BY <1>2, <3>2 DEF CreateDevice
      <4> QED BY <2>1, <3>2, <4>1, RoleJoins DEF RowsOK
    <3> QED BY <3>1, <3>2
  <2>4. DevicesOK'
    BY <2>1, <2>3, <1>i DEF RowsOK, DevicesOK
  <2> QED BY <2>1, <2>2, <2>3, <2>4, TagRowsTags DEF RowsOK, Others
<1> QED BY <1>1, <1>2

LEMMA UpdateKeepsRows ==
  ASSUME RowsOK, NEW n \in DOMAIN inventory, n \in DOMAIN devices, UpdateDevice(n, inventory[n])
  PROVE  RowsOK'
<1> DEFINE item  == inventory[n]
           typed == "model" \in Attrs(n, item)
           moved == "role" \in Attrs(n, item)
<1>i. n \in Devices /\ item \in [vendor: Vendors, model: Models] /\ NewType(item) \in Type
  BY ListedItem DEF RowsOK
<1>1. CASE Raise({n})
  BY <1>1, <1>i DEF Raise, RowsOK, RolesOK, CatalogOK, DevicesOK, Others, RoleNames, catalogue
<1>2. CASE ~Raise({n})
  <2>1. /\ types'  = types \cup (IF typed THEN {NewType(item)} ELSE {})
        /\ makers' = makers \cup (IF typed THEN {item.vendor} ELSE {})
        /\ roles'  = roles \cup (IF moved THEN {MadeRole} ELSE {})
        /\ devices' = [devices EXCEPT ![n].role = DEFAULT_DEVICE_ROLE]
        /\ \E first, kinds : TagRows(first, kinds)
        /\ raised' = {} /\ inventory' = inventory /\ edits' = edits
        /\ ~(typed /\ TypeRefused(item)) /\ ~(moved /\ RoleRefused)
    BY <1>2 DEF UpdateDevice
  <2>2. CatalogOK'
    <3>1. CASE typed
      <4>1. NewType(item).vendor = item.vendor
        BY DEF NewType
      <4> QED BY <2>1, <3>1, <4>1, <1>i, TypeJoins DEF RowsOK
    <3>2. CASE ~typed
      BY <2>1, <3>2 DEF RowsOK, CatalogOK
    <3> QED BY <3>1, <3>2
  <2>3. RolesOK' /\ RoleNames \subseteq RoleNames' /\ DEFAULT_DEVICE_ROLE \in RoleNames'
    <3>1. CASE moved
      BY <2>1, <3>1, RoleJoins DEF RowsOK
    <3>2. CASE ~moved
      <4>1. devices[n].role = DEFAULT_DEVICE_ROLE /\ devices[n].role \in RoleNames
        BY <3>2 DEF Attrs, Row, RowsOK, DevicesOK
      <4> QED BY <2>1, <3>2, <4>1 DEF RowsOK, RolesOK, RoleNames
    <3> QED BY <3>1, <3>2
  <2>4. DevicesOK'
    BY <2>1, <2>3, <1>i DEF RowsOK, DevicesOK
  <2> QED BY <2>1, <2>2, <2>3, <2>4, TagRowsTags DEF RowsOK, Others
<1> QED BY <1>1, <1>2

LEMMA InitRows == Init => RowsOK
<1> SUFFICES ASSUME Init PROVE RowsOK
  OBVIOUS
<1>1. RolesOK
  <2>1. CASE roles = {}
    BY <2>1 DEF RolesOK
  <2>2. ASSUME NEW q \in OtherRoles, roles = {[name |-> q, slug |-> q, painted |-> FALSE]}
        PROVE  RolesOK
    BY <2>2 DEF RolesOK, Role, Names
  <2> QED BY <2>1, <2>2 DEF Init
<1>2. CatalogOK
  BY DEF Init, CatalogOK, Unique
<1>3. DevicesOK
  BY DEF Init, DevicesOK
<1>4. Others
  BY LookupsAssumption DEF Init, Others, TagStates
<1> QED BY <1>1, <1>2, <1>3, <1>4 DEF RowsOK

(* An edit leaves vendors alone, and every device its type and its role.   *)
LEMMA EditKeepsRows ==
  ASSUME RowsOK, EditTag \/ DeleteField \/ ChangeRole \/ MoveDevice \/ DeleteUnused
  PROVE  RowsOK'
<1> USE DEF RowsOK
<1>1. CatalogOK'
  BY DEF CatalogOK, Unique, EditTag, DeleteField, ChangeRole, MoveDevice, DeleteUnused, Edited
<1>2. Others'
  <2>1. edits' \in 0..MaxEdits /\ raised' = {} /\ inventory' = inventory
    BY LookupsAssumption
       DEF Others, EditTag, DeleteField, ChangeRole, MoveDevice, DeleteUnused, Edited
  <2>2. tags' \in TagStates
    BY DEF Others, TagStates, EditTag, DeleteField, ChangeRole, MoveDevice, DeleteUnused
  <2> QED BY <2>1, <2>2 DEF Others
<1>3. CASE EditTag \/ DeleteField
  BY <1>1, <1>2, <1>3 DEF RolesOK, DevicesOK, RoleNames, EditTag, DeleteField
<1>4. CASE ChangeRole
  <2>1. PICK r \in roles : \E q \in Role \ {r} :
          /\ \A s \in roles \ {r} : s.name # q.name /\ s.slug # q.slug
          /\ roles' = (roles \ {r}) \cup {q}
          /\ devices' = [n \in DOMAIN devices |->
               IF Row(n).role = r.name THEN [Row(n) EXCEPT !.role = q.name] ELSE Row(n)]
    BY <1>4 DEF ChangeRole
  <2>2. PICK q \in Role \ {r} :
          /\ \A s \in roles \ {r} : s.name # q.name /\ s.slug # q.slug
          /\ roles' = (roles \ {r}) \cup {q}
          /\ devices' = [n \in DOMAIN devices |->
               IF Row(n).role = r.name THEN [Row(n) EXCEPT !.role = q.name] ELSE Row(n)]
    BY <2>1
  <2>3. RolesOK'
    BY <2>2 DEF RolesOK
  <2>4. q.name \in RoleNames' /\ \A x \in RoleNames : x # r.name => x \in RoleNames'
    BY <2>2 DEF RoleNames
  <2>5. DevicesOK'
    <3>1. \A n \in DOMAIN devices : Row(n) \in [type: types, role: RoleNames]
      BY DEF DevicesOK, Row
    <3>2. \A n \in DOMAIN devices : devices'[n] \in [type: types, role: RoleNames']
      BY <2>2, <2>4, <3>1
    <3>3. DOMAIN devices' = DOMAIN devices /\ types' = types
      BY <1>4, <2>2 DEF ChangeRole
    <3>4. devices' \in [DOMAIN devices -> [type: types, role: RoleNames']]
      BY <2>2, <3>2
    <3> QED BY <3>3, <3>4 DEF DevicesOK
  <2> QED BY <1>1, <1>2, <2>3, <2>5
<1>5. CASE MoveDevice
  <2>1. PICK n \in DOMAIN devices, r \in roles : devices' = [devices EXCEPT ![n].role = r.name]
    BY <1>5 DEF MoveDevice
  <2>2. roles' = roles /\ types' = types
    BY <1>5 DEF MoveDevice
  <2>3. r.name \in RoleNames /\ RoleNames' = RoleNames
    BY <2>2 DEF RoleNames
  <2>4. DevicesOK'
    BY <2>1, <2>2, <2>3 DEF DevicesOK
  <2> QED BY <1>1, <1>2, <2>2, <2>4 DEF RolesOK
<1>6. CASE DeleteUnused
  <2>1. /\ roles' = {r \in roles : \E n \in DOMAIN devices : Row(n).role = r.name}
        /\ types' = {t \in types : \E n \in DOMAIN devices : Row(n).type = t}
        /\ devices' = devices
    BY <1>6 DEF DeleteUnused
  <2>2. RolesOK'
    BY <2>1 DEF RolesOK
  <2>3. \A n \in DOMAIN devices : devices[n] \in [type: types', role: RoleNames']
    BY <2>1 DEF DevicesOK, RoleNames, Row
  <2>4. DevicesOK'
    BY <2>1, <2>3 DEF DevicesOK
  <2> QED BY <1>1, <1>2, <2>2, <2>4
<1> QED BY <1>3, <1>4, <1>5, <1>6

LEMMA StepKeepsRows == RowsOK /\ [Next]_vars => RowsOK'
<1> SUFFICES ASSUME RowsOK, [Next]_vars PROVE RowsOK'
  OBVIOUS
<1> USE DEF catalogue
<1>1. CASE DatabaseReady \/ CreateSite \/ \E kind \in Kinds : TagOther(kind)
  <2>1. /\ tags' \in TagStates /\ raised' = {}
        /\ UNCHANGED <<inventory, catalogue, devices, edits>>
    BY <1>1, TagRowsTags DEF DatabaseReady, CreateSite, TagOther, Raise, TagStates, RowsOK, Others
  <2> QED BY <2>1 DEF RowsOK, RolesOK, CatalogOK, DevicesOK, Others, RoleNames
<1>2. CASE Discover \/ UNCHANGED vars
  BY <1>2 DEF Discover, vars, RowsOK, RolesOK, CatalogOK, DevicesOK, Others, RoleNames
<1>3. CASE \E n \in DOMAIN inventory : SyncDevice(n)
  BY <1>3, CreateKeepsRows, UpdateKeepsRows DEF SyncDevice
<1> QED BY <1>1, <1>2, <1>3, EditKeepsRows DEF Next

(* Nothing a sync or a user does leaves a device without its type or role, *)
(* a type without its manufacturer, or two rows where one is unique.       *)
THEOREM TypeCorrect == Spec => []TypeOK
<1>1. RowsOK /\ FieldOK => TypeOK
  BY LookupsAssumption DEF RowsOK, RolesOK, CatalogOK, Unique, DevicesOK, Others, RoleNames, Row,
     FieldOK, TypeOK, Stamp, SiteId, TagStates
<1>2. Spec => []RowsOK
  BY InitRows, StepKeepsRows, PTL DEF Spec
<1> QED BY <1>1, <1>2, Inductive, PTL

-----------------------------------------------------------------------------
(* The date that is stamped on a row of any kind can be seen, however the  *)
(* field came about.                                                       *)
THEOREM StampsShow == Spec => []StampShows
<1>1. FieldOK => StampShows
  BY DEF FieldOK, StampShows, Stamp
<1> QED BY <1>1, Inductive, PTL

(* A device is created but for another model of the same slug, or a tag or *)
(* a role that a user gave the plugin's name or slug.                      *)
THEOREM NewDevicesAreCreated == Spec => []CreateNeverRaises
<1>1. Init => CreateNeverRaises
  BY DEF Init, CreateNeverRaises
<1>2. TypesOK /\ CreateNeverRaises /\ [Next]_vars => CreateNeverRaises'
  <2> SUFFICES ASSUME TypesOK, CreateNeverRaises, [Next]_vars PROVE CreateNeverRaises'
    OBVIOUS
  <2>1. ASSUME NEW n \in DOMAIN inventory, CreateDevice(n, inventory[n])
        PROVE  CreateNeverRaises'
    <3>1. CASE raised' = {}
      BY <3>1 DEF CreateNeverRaises
    <3>2. CASE raised' # {}
      <4>1. /\ Raise({n})
            /\ \/ TypeRefused(inventory[n])
               \/ RoleNamed(DEFAULT_DEVICE_ROLE) = {} /\ RoleRefused
               \/ TagRefused("ssot-synced-from-ipfabric")
        BY <2>1, <3>2 DEF CreateDevice
      <4>2. ASSUME TypeRefused(inventory[n]) PROVE SlugTaken(n)
        <5>1. PICK u \in types \ {NewType(inventory[n])} :
                /\ u.vendor = NewType(inventory[n]).vendor
                /\ u.model = NewType(inventory[n]).model \/ u.slug = NewType(inventory[n]).slug
          BY <4>2 DEF TypeRefused
        <5>2. PICK J \in Inventories : \E k \in DOMAIN J : u = NewType(J[k])
          BY DEF TypesOK, ListedType
        <5>3. u.model # inventory[n].model
          BY <5>1, <5>2 DEF NewType
        <5> QED BY <5>1, <5>3 DEF SlugTaken, NewType
      <4>3. ASSUME RoleNamed(DEFAULT_DEVICE_ROLE) = {}, RoleRefused PROVE RoleRenamed
        BY <4>3 DEF RoleRefused, RoleRenamed, RoleNamed
      <4>4. SlugTaken(n) \/ RoleRenamed \/ tags["ssot-synced-from-ipfabric"] = "torn"
        BY <4>1, <4>2, <4>3 DEF TagRefused, SlugTaken
      <4> QED BY <4>1, <4>4 DEF Raise, CreateNeverRaises, SlugTaken, RoleRenamed, RoleNamed, catalogue
    <3> QED BY <3>1, <3>2
  <2>2. ASSUME NEW n \in DOMAIN devices, UpdateDevice(n, inventory[n])
        PROVE  CreateNeverRaises'
    BY <2>2 DEF UpdateDevice, Raise, CreateNeverRaises
  <2>3. CASE \E n \in DOMAIN inventory : SyncDevice(n)
    BY <2>1, <2>2, <2>3 DEF SyncDevice
  <2>4. CASE UNCHANGED vars
    BY <2>4 DEF vars, CreateNeverRaises, SlugTaken, RoleRenamed, RoleNamed
  <2>5. CASE raised' = {}
    BY <2>5 DEF CreateNeverRaises
  <2> QED BY <2>3, <2>4, <2>5 DEF Next, DatabaseReady, CreateSite, Discover, TagOther, Raise, EditTag,
             DeleteField, ChangeRole, MoveDevice, DeleteUnused, Edited
<1> QED BY <1>1, <1>2, Inductive, PTL DEF Spec

(* Types are looked for by slug and for any vendor: a new device is of the *)
(* listed vendor and model all the same, unless the model is another's     *)
(* slug, and of a type of that slug then.                                  *)
THEOREM NewDevicesAreAsListed == Spec => CreatedAsListed
<1> DEFINE AsListed(m) ==
             LET t == devices'[m].type
             IN  \/ t.vendor = inventory[m].vendor /\ t.model = inventory[m].model
                 \/ t.slug = inventory[m].model /\ SlugOfAnother(inventory[m])
           Listed == \A n \in DOMAIN devices' \ DOMAIN devices : AsListed(n)
<1>1. TypesOK /\ [Next]_vars => [Listed]_vars
  <2> SUFFICES ASSUME TypesOK, Next, NEW m \in DOMAIN devices' \ DOMAIN devices
               PROVE  AsListed(m)
    OBVIOUS
  <2>1. PICK n \in DOMAIN inventory : SyncDevice(n)
    BY DEF Next, DatabaseReady, CreateSite, Discover, TagOther, Raise, EditTag, DeleteField,
           ChangeRole, MoveDevice, DeleteUnused, Edited
  <2>2. CreateDevice(n, inventory[n])
    BY <2>1 DEF SyncDevice, UpdateDevice, Raise
  <2> DEFINE found == FirstTypes(inventory[n].model)
  <2>3. PICK t \in found \cup (IF found = {} THEN {NewType(inventory[n])} ELSE {}) :
          devices' = [k \in DOMAIN devices \cup {n} |->
            IF k = n THEN [type |-> t, role |-> DEFAULT_DEVICE_ROLE] ELSE devices[k]]
    BY <2>2 DEF CreateDevice, Raise
  <2>4. m = n /\ devices'[m].type = t
    BY <2>3
  <2>5. CASE t = NewType(inventory[n])
    BY <2>4, <2>5 DEF NewType
  <2>6. CASE t \in found
    <3>1. t \in types /\ t.slug = inventory[n].model
      BY <2>6 DEF FirstTypes, TypesBySlug
    <3>2. PICK J \in Inventories : \E k \in DOMAIN J : t = NewType(J[k])
      BY <3>1 DEF TypesOK, ListedType
    <3>3. PICK k \in DOMAIN J : t = NewType(J[k])
      BY <3>2
    <3>4. inventory[n].model = Slugify[J[k].model]
      BY <3>1, <3>3 DEF NewType
    <3>5. J[k] = inventory[n] \/ SlugOfAnother(inventory[n])
      BY <3>4 DEF SlugOfAnother
    <3> QED BY <2>4, <3>1, <3>3, <3>5 DEF NewType
  <2> QED BY <2>3, <2>5, <2>6
<1> QED BY <1>1, Inductive, PTL DEF Spec, CreatedAsListed
=============================================================================
