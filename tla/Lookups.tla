------------------------------ MODULE Lookups -------------------------------
(***************************************************************************)
(* The rows a sync needs besides its own: the tags and custom fields the   *)
(* plugin makes when the database is ready (signals.py) and again when     *)
(* they are missing (tag_object in nbutils.py), and the manufacturer, the  *)
(* device type and the role of a device, which Device.create and update    *)
(* (diffsync_models.py) find or make (nbutils.py).                         *)
(*                                                                         *)
(* A handler is one step here: it does all it does, or raises and all is   *)
(* rolled back. Between the steps users edit the rows, the plugin starts   *)
(* anew and IP Fabric lists other devices.                                 *)
(*                                                                         *)
(* A role's slug is given by the name it is the slug of; painted tells     *)
(* whether its colour is the one the plugin gives. Of a field, the kinds   *)
(* of rows it is for are kept. Of a tag: "whole" is one that has the name  *)
(* and the slug of the plugin's, "missing" that no tag has either, "torn"  *)
(* that tags have them but none has both. Names and slugs of tags and of   *)
(* roles are unique. The statuses are those Nautobot comes with.           *)
(***************************************************************************)
EXTENDS Integers, FiniteSets

CONSTANTS
  Devices,             \* host names
  Vendors,             \* manufacturers by rank, in which queries sort them
  Models,              \* models, those of slugs among them
  Slugify,             \* django.utils.text.slugify on Models
  Inventories,         \* what IP Fabric may list: a vendor and a model per device
  DEFAULT_DEVICE_ROLE, \* name of the role given to devices
  OtherRoles,          \* names users give to roles
  MaxEdits             \* bound on edits by users

ASSUME LookupsAssumption ==
  /\ MaxEdits \in Nat /\ Vendors \subseteq Nat /\ Slugify \in [Models -> Models]
  /\ DEFAULT_DEVICE_ROLE \notin OtherRoles
  /\ \A I \in Inventories : DOMAIN I \subseteq Devices
                            /\ \A n \in DOMAIN I : I[n] \in [vendor: Vendors, model: Models]
Kinds  == {"Device", "DeviceType", "Interface", "Manufacturer", "Site", "VLAN", "DeviceRole",
           "IPAddress"}
Tags   == {"ssot-synced-from-ipfabric", "ssot-safe-delete"}
Type   == [vendor: Vendors, model: Models, slug: Models]
Names  == OtherRoles \cup {DEFAULT_DEVICE_ROLE}
Role   == [name: Names, slug: Names, painted: BOOLEAN]

VARIABLES
  inventory,  \* what IP Fabric lists
  tags,       \* the plugin's tags: "missing", "whole" or "torn"
  fields,     \* the plugin's custom fields: the kinds each is for, {} if it is missing
  makers,     \* the manufacturers
  types,      \* the device types
  roles,      \* the roles
  devices,    \* type and role of each device there is
  edits,      \* number of edits
  stamped,    \* history: the kinds of rows the last step stamped
  raised      \* history: the device for which the last step raised, if any
vars == <<inventory, tags, fields, makers, types, roles, devices, edits, stamped, raised>>
catalogue == <<makers, types, roles>>

Row(n) == devices[n]
TypeOK ==
  /\ inventory \in Inventories /\ tags \in [Tags -> {"missing", "whole", "torn"}]
  /\ fields \in [{"ssot-synced-from-ipfabric", "ipfabric-site-id"} -> SUBSET Kinds]
  /\ makers \subseteq Vendors /\ types \subseteq Type /\ roles \subseteq Role
  /\ DOMAIN devices \subseteq Devices
  /\ \A n \in DOMAIN devices : Row(n).type \in types /\ Row(n).role \in {r.name : r \in roles}
  /\ \A t \in types : t.vendor \in makers
  /\ \A r, s \in roles : r.name = s.name \/ r.slug = s.slug => r = s
  /\ \A t, u \in types : t.vendor = u.vendor /\ (t.model = u.model \/ t.slug = u.slug) => t = u
  /\ edits \in 0..MaxEdits /\ stamped \subseteq Kinds /\ raised \subseteq Devices

Init ==
  /\ inventory \in Inventories /\ edits = 0 /\ stamped = {} /\ raised = {}
  /\ tags = [t \in Tags |-> "missing"]
  /\ fields = [f \in {"ssot-synced-from-ipfabric", "ipfabric-site-id"} |-> {}]
  /\ makers = {} /\ types = {} /\ devices = [n \in {} |-> {}]
  /\ roles \in {{}} \cup {{[name |-> r, slug |-> r, painted |-> FALSE]} : r \in OtherRoles}

-----------------------------------------------------------------------------
(* Tags and fields                                                         *)

(* get_or_create by slug and name: an IntegrityError if either is taken by *)
(* a tag that does not have the other.                                     *)
TagRefused(tag) == tags[tag] = "torn"

(* nautobot_database_ready_callback: get or create them, one after the     *)
(* other and in no transaction, and add the kinds a field is for.          *)
CreateCustomField(f, field, models) == [f EXCEPT ![field] = @ \cup models]
DatabaseReady ==
  /\ tags' = IF TagRefused("ssot-synced-from-ipfabric") THEN tags
             ELSE [tag \in Tags |-> IF TagRefused(tag) THEN "torn" ELSE "whole"]
  /\ fields' = IF \E tag \in Tags : TagRefused(tag) THEN fields
               ELSE CreateCustomField(
                      CreateCustomField(fields, "ssot-synced-from-ipfabric", Kinds),
                      "ipfabric-site-id", {"Site"})
  /\ stamped' = {} /\ raised' = {}
  /\ UNCHANGED <<inventory, catalogue, devices, edits>>

(* Mutant: the field is made for the kind of row at hand.                  *)
WithFieldOf(f, kind) ==
  IF f["ssot-synced-from-ipfabric"] # {} THEN f
  ELSE CreateCustomField(f, "ssot-synced-from-ipfabric", {kind})
(* tag_object makes the field when there is none of its name.              *)
WithField(f, kind) ==
  IF f["ssot-synced-from-ipfabric"] # {} THEN f
  ELSE CreateCustomField(f, "ssot-synced-from-ipfabric", Kinds)

Raise(N) == /\ raised' = N /\ stamped' = {}
            /\ UNCHANGED <<inventory, tags, fields, catalogue, devices, edits>>

(* tag_object on rows of these kinds, one of them first, where the tag is  *)
(* not refused.                                                            *)
TagRows(first, kinds) ==
  /\ tags' = [tags EXCEPT !["ssot-synced-from-ipfabric"] = "whole"]
  /\ fields' = WithField(fields, first)
  /\ stamped' = kinds \cup {first}

(* The other handlers: rows of any kind, and a site with its id makes the  *)
(* field of that id.                                                       *)
TagOther(kind) ==
  IF TagRefused("ssot-synced-from-ipfabric") THEN Raise({})
  ELSE /\ TagRows(kind, {}) /\ raised' = {}
       /\ UNCHANGED <<inventory, catalogue, devices, edits>>
CreateSite ==
  IF TagRefused("ssot-synced-from-ipfabric") THEN Raise({})
  ELSE /\ tags' = [tags EXCEPT !["ssot-synced-from-ipfabric"] = "whole"]
       /\ fields' = WithField(CreateCustomField(fields, "ipfabric-site-id", {"Site"}), "Site")
       /\ stamped' = {"Site"} /\ raised' = {}
       /\ UNCHANGED <<inventory, catalogue, devices, edits>>

-----------------------------------------------------------------------------
(* Devices                                                                 *)

(* create_device_type_object, which makes the manufacturer first.          *)
NewType(item) == [vendor |-> item.vendor, model |-> item.model, slug |-> Slugify[item.model]]
TypeRefused(item) ==
  LET t == NewType(item)
  IN  \E u \in types \ {t} :
        u.vendor = t.vendor /\ (u.model = t.model \/ u.slug = t.slug)

(* Mutant: the slug is made of the model before it is looked for.          *)
TypesBySlugified(model) == {t \in types : t.slug = Slugify[model]}
(* DeviceType.objects.filter(slug=attrs["model"])                          *)
TypesBySlug(model) == {t \in types : t.slug = model}
(* first(): in the order of manufacturers, then of models.                 *)
FirstTypes(model) ==
  {t \in TypesBySlug(model) : \A u \in TypesBySlug(model) : t.vendor <= u.vendor}

(* create_device_role_object: get or create by name, slug and colour.      *)
RoleNamed(name) == {r \in roles : r.name = name}
MadeRole == [name |-> DEFAULT_DEVICE_ROLE, slug |-> DEFAULT_DEVICE_ROLE, painted |-> TRUE]
(* Mutant: names of roles need not be unique.                              *)
RoleNeverRefused == FALSE
RoleRefused == /\ MadeRole \notin roles
               /\ \E r \in roles : DEFAULT_DEVICE_ROLE \in {r.name, r.slug}

(* Mutant: the role is not looked for by its name alone.                   *)
CreateDeviceAnyRole(n, item) ==
  IF \/ FirstTypes(item.model) = {} /\ TypeRefused(item)
     \/ RoleRefused \/ TagRefused("ssot-synced-from-ipfabric")
  THEN Raise({n})
  ELSE \E t \in FirstTypes(item.model)
                  \cup (IF FirstTypes(item.model) = {} THEN {NewType(item)} ELSE {}) :
         /\ types' = types \cup {t} /\ makers' = makers \cup {t.vendor}
         /\ roles' = roles \cup {MadeRole}
         /\ devices' = [m \in DOMAIN devices \cup {n} |->
              IF m = n THEN [type |-> t, role |-> DEFAULT_DEVICE_ROLE] ELSE devices[m]]
         /\ TagRows("Device", {}) /\ raised' = {} /\ UNCHANGED <<inventory, edits>>

(* A device of IP Fabric that Nautobot does not have.                      *)
CreateDevice(n, item) ==
  LET found    == FirstTypes(item.model)
      has_role == RoleNamed(DEFAULT_DEVICE_ROLE) # {}
      kinds    == (IF found = {} THEN {"DeviceType"} ELSE {})
                    \cup (IF has_role THEN {} ELSE {"DeviceRole"}) \cup {"Device"}
  IN  IF \/ found = {} /\ TypeRefused(item)
         \/ ~ has_role /\ RoleRefused
         \/ TagRefused("ssot-synced-from-ipfabric")
      THEN Raise({n})
      ELSE \E t \in found \cup (IF found = {} THEN {NewType(item)} ELSE {}) :
             /\ types' = types \cup {t} /\ makers' = makers \cup {t.vendor}
             /\ roles' = roles \cup (IF has_role THEN {} ELSE {MadeRole})
             /\ devices' = [m \in DOMAIN devices \cup {n} |->
                  IF m = n THEN [type |-> t, role |-> DEFAULT_DEVICE_ROLE] ELSE devices[m]]
             /\ TagRows(IF found = {} THEN "Manufacturer" ELSE "Device", kinds)
             /\ raised' = {} /\ UNCHANGED <<inventory, edits>>

(* A device both have, with the attributes that differ. The type is made   *)
(* if the vendor differs too, and given to nothing.                        *)
Attrs(n, item) ==
  (IF Row(n).type.model # item.model THEN {"model"} ELSE {})
    \cup (IF Row(n).type.vendor # item.vendor THEN {"vendor"} ELSE {})
    \cup (IF Row(n).role # DEFAULT_DEVICE_ROLE THEN {"role"} ELSE {})

UpdateDevice(n, item) ==
  LET attrs == Attrs(n, item)
      typed == "model" \in attrs
      moved == "role" \in attrs
  IN  IF \/ typed /\ ("vendor" \notin attrs \/ TypeRefused(item))
         \/ moved /\ RoleRefused
         \/ TagRefused("ssot-synced-from-ipfabric")
      THEN Raise({n})
      ELSE /\ types'  = types \cup (IF typed THEN {NewType(item)} ELSE {})
           /\ makers' = makers \cup (IF typed THEN {item.vendor} ELSE {})
           /\ roles'  = roles \cup (IF moved THEN {MadeRole} ELSE {})
           /\ devices' = [devices EXCEPT ![n].role = DEFAULT_DEVICE_ROLE]
           /\ TagRows(IF typed THEN "Manufacturer" ELSE IF moved THEN "DeviceRole" ELSE "Device",
                      {"Device"} \cup (IF typed THEN {"DeviceType"} ELSE {})
                                 \cup (IF moved THEN {"DeviceRole"} ELSE {}))
           /\ raised' = {} /\ UNCHANGED <<inventory, edits>>

SyncDevice(n) ==
  IF n \notin DOMAIN devices THEN CreateDevice(n, inventory[n])
  ELSE Attrs(n, inventory[n]) # {} /\ UpdateDevice(n, inventory[n])

-----------------------------------------------------------------------------
(* Users and IP Fabric                                                     *)

Edited == /\ edits < MaxEdits /\ edits' = edits + 1 /\ stamped' = {} /\ raised' = {}
          /\ UNCHANGED <<inventory, makers>>

(* Tags are deleted, made, and given another name or another slug.         *)
EditTag == /\ Edited
           /\ \E tag \in Tags : \E s \in {"missing", "whole", "torn"} \ {tags[tag]} :
                tags' = [tags EXCEPT ![tag] = s]
           /\ UNCHANGED <<fields, types, roles, devices>>
DeleteField == /\ Edited
               /\ \E f \in DOMAIN fields : fields[f] # {} /\ fields' = [fields EXCEPT ![f] = {}]
               /\ UNCHANGED <<tags, types, roles, devices>>
ChangeRole == /\ Edited
              /\ \E r \in roles : \E q \in Role \ {r} :
                   /\ \A s \in roles \ {r} : s.name # q.name /\ s.slug # q.slug
                   /\ roles' = (roles \ {r}) \cup {q}
                   /\ devices' = [n \in DOMAIN devices |->
                        IF Row(n).role = r.name THEN [Row(n) EXCEPT !.role = q.name] ELSE Row(n)]
              /\ UNCHANGED <<tags, fields, types>>
MoveDevice == /\ Edited
              /\ \E n \in DOMAIN devices, r \in roles :
                   Row(n).role # r.name /\ devices' = [devices EXCEPT ![n].role = r.name]
              /\ UNCHANGED <<tags, fields, types, roles>>
(* Roles and types that no device has can be deleted.                      *)
DeleteUnused == /\ Edited
                /\ roles' = {r \in roles : \E n \in DOMAIN devices : Row(n).role = r.name}
                /\ types' = {t \in types : \E n \in DOMAIN devices : Row(n).type = t}
                /\ UNCHANGED <<tags, fields, devices>>

Discover == /\ inventory' \in Inventories \ {inventory} /\ stamped' = {} /\ raised' = {}
            /\ UNCHANGED <<tags, fields, catalogue, devices, edits>>

Next == \/ DatabaseReady \/ CreateSite \/ Discover
        \/ \E kind \in Kinds : TagOther(kind)
        \/ \E n \in DOMAIN inventory : SyncDevice(n)
        \/ EditTag \/ DeleteField \/ ChangeRole \/ MoveDevice \/ DeleteUnused
Spec == Init /\ [][Next]_vars

-----------------------------------------------------------------------------
(* Properties                                                              *)

(* Whoever made the field of the sync date, the plugin when it started or  *)
(* a sync after a user deleted it, and for whatever row it was made: the   *)
(* date that is stamped on a row of any kind can be seen.                  *)
StampShows == stamped \subseteq fields["ssot-synced-from-ipfabric"]

(* A device that Nautobot does not have is created, whatever devices were  *)
(* created before it. Its create ends in an IntegrityError only if the     *)
(* manufacturer has another model of the same slug, or where a user gave   *)
(* the name or the slug of the plugin's tag to a tag without the other, or *)
(* the slug of the plugin's role to one of another name. A role of its     *)
(* name with any slug and any colour serves.                               *)
SlugTaken(n) == \E t \in types : /\ t.vendor = inventory[n].vendor
                                 /\ t.slug = Slugify[inventory[n].model]
                                 /\ t.model # inventory[n].model
RoleRenamed == /\ RoleNamed(DEFAULT_DEVICE_ROLE) = {}
               /\ \E r \in roles : r.slug = DEFAULT_DEVICE_ROLE
CreateNeverRaises ==
  \A n \in raised \ DOMAIN devices :
    SlugTaken(n) \/ RoleRenamed \/ tags["ssot-synced-from-ipfabric"] = "torn"

(* A new device is of the vendor and the model IP Fabric lists, though     *)
(* types are looked for by slug, for any vendor, and stay when devices and *)
(* inventories change. One whose listed model is itself the slug of        *)
(* another that IP Fabric lists at some time, of the same or of another    *)
(* vendor, may get the type of that slug instead, and no third one.        *)
SlugOfAnother(item) ==
  \E I \in Inventories : \E m \in DOMAIN I : I[m] # item /\ Slugify[I[m].model] = item.model
CreatedAsListed ==
  [][\A n \in DOMAIN devices' \ DOMAIN devices :
       LET t == devices'[n].type
       IN  \/ t.vendor = inventory[n].vendor /\ t.model = inventory[n].model
           \/ t.slug = inventory[n].model /\ SlugOfAnother(inventory[n])]_vars
=============================================================================
