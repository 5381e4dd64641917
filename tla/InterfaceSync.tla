--------------------------- MODULE InterfaceSync ---------------------------
(***************************************************************************)
(* The sync of interfaces and addresses: Interface.create, update and      *)
(* delete (diffsync_models.py), create_interface and create_ip             *)
(* (nbutils.py), load_interfaces (adapter_nautobot.py), below the devices  *)
(* of one site. SSoTSync models the job and its options in full; here a    *)
(* job is what its handlers need: load, diff, elements, cleanup, commit.   *)
(*                                                                         *)
(* A database is three tables. An interface refers to its device, an       *)
(* address to its interface (a generic relation, deleted with it), and a   *)
(* device to its primary addresses (set to null when the address goes).    *)
(* Names and hosts are their ranks, in which queries sort them.            *)
(***************************************************************************)
EXTENDS IPFabricInterfaces, Integers, FiniteSets

CONSTANTS
  Devices, Ifaces, Hosts,  \* host names, names of interfaces, addresses
  Family,         \* Family[h] is 4 or 6
  Texts, Mtus,    \* descriptions and MTUs; "" is the empty description
  Snapshots,      \* login addresses of the devices and table of interfaces
  Options,        \* the options a job is started with and its worker's setting
  InitialDbs,     \* the databases the plugin may be installed on
  FirstId,        \* the first primary key that is free in all of them
  MaxRuns,        \* bound on the number of jobs
  MaxEdits        \* bound on the number of edits by users

Id == Nat \ {0}
DeviceRow == [id: Id, name: Devices, status: Statuses, ssot: BOOLEAN, safe: BOOLEAN,
              primary_ip4: Id \cup {None}, primary_ip6: Id \cup {None}]
InterfaceRow == [id: Id, device: Id, name: Ifaces, text: Texts, mtu: Mtus \cup {None},
                 ssot: BOOLEAN, safe: BOOLEAN]
AddressRow == [id: Id, host: Hosts, iface: Id, status: Statuses, ssot: BOOLEAN, safe: BOOLEAN]
Database == [devices: SUBSET DeviceRow, interfaces: SUBSET InterfaceRow,
             addresses: SUBSET AddressRow]

Ids(T) == {r.id : r \in T}
Rows(D) == D.devices \cup D.interfaces \cup D.addresses
InterfacesOf(D, d) == {i \in D.interfaces : i.device = d.id}
AddressesOf(D, i)  == {a \in D.addresses : a.iface = i.id}
Primaries(d)       == {d.primary_ip4, d.primary_ip6} \ {None}
Dangling(D)        == \E d \in D.devices : ~ Primaries(d) \subseteq Ids(D.addresses)

(* A model of the source: None where IP Fabric has nothing.                *)
Item == [device: Devices, name: Ifaces, text: Texts \cup {None}, mtu: Mtus,
         ip: Hosts \cup {None}, primary: BOOLEAN]
Source(S) == UNION {LoadDeviceInterfaces(n, S.table, S.login[n]) : n \in DOMAIN S.login}

ASSUME RanksAssumption == /\ Devices \subseteq Nat /\ Hosts \subseteq Nat
                          /\ Ifaces \subseteq Id /\ Family \in [Hosts -> {4, 6}]
                          /\ "" \in Texts /\ DefaultMtu \in Mtus /\ None \notin Id \cup Mtus
ASSUME SnapshotsAssumption ==
  /\ None \notin Snapshots
  /\ \A S \in Snapshots : /\ DOMAIN S.login \subseteq Devices /\ DOMAIN S.table \subseteq Nat
                          /\ Source(S) \subseteq Item
(* Besides the job's own options the setting that the worker has read from *)
(* PLUGINS_CONFIG: workers may be restarted with another one.              *)
Option == [safe: BOOLEAN, tagged_only: BOOLEAN, ALLOW_DUPLICATE_IPS: BOOLEAN]
ASSUME OptionsAssumption == Options \subseteq Option /\ None \notin Options
ASSUME BoundsAssumption == MaxRuns \in Nat /\ MaxEdits \in Nat

(* What Nautobot and its database enforce.                                 *)
PrimaryIsOwn(D) ==
  \A d \in D.devices : \A p \in Primaries(d) :
    \E i \in InterfacesOf(D, d) : \E a \in AddressesOf(D, i) : a.id = p
IsDatabase(D) ==
  /\ D \in Database /\ PrimaryIsOwn(D)
  /\ \A i \in D.interfaces : i.device \in Ids(D.devices)
  /\ \A a \in D.addresses : a.iface \in Ids(D.interfaces)
  /\ \A q, r \in Rows(D) : q.id = r.id => q = r
  /\ \A i, j \in D.interfaces : i.device = j.device /\ i.name = j.name => i = j
ASSUME InitialDbsAssumption ==
  FirstId \in Id /\ \A D \in InitialDbs : IsDatabase(D) /\ \A i \in Ids(Rows(D)) : i < FirstId

VARIABLES
  db,                 \* the rows as the running job sees them
  base,               \* the committed rows
  next_id,            \* primary keys are never used again
  run, edits,         \* numbers of jobs and of edits
  pc,                 \* what the job does next
  job,                \* options of the running job
  src,                \* the snapshot of the running job
  diff,               \* elements of the diff still to be synced
  here,               \* the device whose elements are being synced
  objects_to_delete,  \* class attribute: ids of queued rows, by group
  aux_last            \* history: the snapshot of the last job, if it and
                      \* all jobs before it completed

vars == <<db, base, next_id, run, edits, pc, job, src, diff, here, objects_to_delete, aux_last>>

Groups == {"interface", "device", "ipaddress"}

(* The sync of a device comes before that of its interfaces; item is the   *)
(* model of the source, None for a device or a delete.                     *)
Attrs   == {"text", "mtu", "ip", "primary", "status"}
Element == [device: Devices, name: Ifaces \cup {0}, action: {"create", "update", "delete"},
            attrs: SUBSET Attrs, item: Item \cup {None}]

TypeOK ==
  /\ db \in Database /\ base \in Database /\ next_id \in Id
  /\ run \in Nat /\ edits \in Nat
  /\ pc \in {"idle", "target", "sync", "interface", "device", "done"}
  /\ IF pc = "idle" THEN job = None /\ src = None
     ELSE job \in Option /\ src \in Snapshots
  /\ diff \subseteq Element /\ here \in Devices \cup {None}
  /\ objects_to_delete \in [Groups -> SUBSET Id]
  /\ aux_last \in Snapshots \cup {None}

Init ==
  /\ db \in InitialDbs /\ base = db
  /\ next_id = FirstId
  /\ run = 0 /\ edits = 0 /\ pc = "idle" /\ job = None /\ src = None /\ diff = {}
  /\ here = None
  /\ objects_to_delete = [g \in Groups |-> {}] /\ aux_last = None

Single(S) == \A p, q \in S : p = q
Put(T, r) == {q \in T : q.id # r.id} \cup {r}

Forget == pc' = "idle" /\ job' = None /\ src' = None /\ diff' = {} /\ here' = None

(* An exception leaves sync_data; the class attributes stay as they are.   *)
Raise == /\ Forget /\ db' = base /\ aux_last' = None
         /\ UNCHANGED <<base, next_id, run, edits, objects_to_delete>>

-----------------------------------------------------------------------------
(* sync_data up to the diff                                                *)

StartJob ==
  /\ pc = "idle" /\ run < MaxRuns
  /\ pc' = "target" /\ run' = run + 1 /\ job' \in Options /\ src' \in Snapshots
  /\ UNCHANGED <<db, base, next_id, edits, diff, here, objects_to_delete, aux_last>>

(* An interface has a host once: first() is the address of least host.     *)
FirstAddress(D, i) == {a \in AddressesOf(D, i) : \A b \in AddressesOf(D, i) : a.host <= b.host}

(* Mutant: an interface counts as primary by its host alone, whatever the  *)
(* primary address of the device.                                          *)
LoadAnyPrimary(D, d) ==
  LET model(i, a) == [device |-> d.name, name |-> i.name, text |-> i.text, status |-> d.status,
                      mtu |-> IF i.mtu = None THEN DefaultMtu ELSE i.mtu,
                      ip |-> IF a = {} THEN None ELSE (CHOOSE x \in a : TRUE).host,
                      primary |-> a # {}]
  IN  {model(i, FirstAddress(D, i)) : i \in InterfacesOf(D, d)}

(* load_interfaces. The status is that of the device.                      *)
LoadInterfaces(D, d) ==
  LET device_primary_ip == IF d.primary_ip4 # None THEN d.primary_ip4 ELSE d.primary_ip6
      model(i, a) == [device |-> d.name, name |-> i.name, text |-> i.text, status |-> d.status,
                      mtu |-> IF i.mtu = None THEN DefaultMtu ELSE i.mtu,
                      ip |-> IF a = {} THEN None ELSE (CHOOSE x \in a : TRUE).host,
                      primary |-> device_primary_ip \in Ids(a)]
  IN  {model(i, FirstAddress(D, i)) : i \in InterfacesOf(D, d)}

Changed(x, y) ==
  {a \in {"text", "mtu", "ip", "primary"} : x[a] # y[a]}
    \cup (IF y.status # "Active" THEN {"status"} ELSE {})

(* The diff of a snapshot and the loaded devices L.                        *)
DiffFrom(S, D, L) ==
  LET items  == Source(S)
      models == UNION {LoadInterfaces(D, d) : d \in L}
      at(X, x) == {y \in X : y.device = x.device /\ y.name = x.name}
      on(n, action, attrs) ==
        [device |-> n, name |-> 0, action |-> action, attrs |-> attrs, item |-> None]
      of(x, action, attrs, item) ==
        [device |-> x.device, name |-> x.name, action |-> action, attrs |-> attrs, item |-> item]
  IN  {on(n, "create", {}) : n \in {n \in DOMAIN S.login : \A d \in L : d.name # n}}
        \cup {on(d.name, "delete", {}) : d \in {d \in L : d.name \notin DOMAIN S.login}}
        \cup {on(d.name, "update", {"status"}) :
                d \in {d \in L : d.name \in DOMAIN S.login /\ d.status # "Active"}}
        \cup {of(x, "create", {}, x) : x \in {x \in items : at(models, x) = {}}}
        \cup {of(y, "delete", {}, None) : y \in {y \in models : at(items, y) = {}}}
        \cup {e \in {of(p[1], "update", Changed(p[1], p[2]), p[1]) :
                       p \in {p \in items \X models : p[2] \in at(models, p[1])}} : e.attrs # {}}

(* load_device: the tagged devices only when asked, one per name.          *)
Loads(D, tagged_only) ==
  LET scope == {d \in D.devices : tagged_only => d.ssot}
  IN  {L \in SUBSET scope : /\ \A c, d \in L : c.name = d.name => c = d
                            /\ \A d \in scope : \E c \in L : c.name = d.name}

LoadTarget ==
  /\ pc = "target"
  /\ \E L \in Loads(db, job.tagged_only) : diff' = DiffFrom(src, db, L)
  /\ pc' = IF diff' = {} THEN "done" ELSE "sync"
  /\ UNCHANGED <<db, base, next_id, run, edits, job, src, here, objects_to_delete, aux_last>>

(* The order of the sync (DiffSync): of the source in any order, and after *)
(* it by name what only Nautobot has; a device, then all its interfaces.   *)
Precedes(e, f) ==
  f.name # 0 /\ (e.name = 0 \/ (f.action = "delete" /\ (e.action = "delete" => e.name < f.name)))
DevicePrecedes(m, n) == n \notin DOMAIN src.login /\ (m \in DOMAIN src.login \/ m < n)
MayBeNext(e, D) ==
  \A f \in D : IF f.device = e.device THEN ~ Precedes(f, e)
               ELSE here # f.device /\ (here = e.device \/ ~ DevicePrecedes(f.device, e.device))

-----------------------------------------------------------------------------
(* Rows and those that go with them                                        *)

(* ON DELETE SET NULL of the primary addresses of a device.                *)
Unlinked(d, ids) == [d EXCEPT !.primary_ip4 = IF @ \in ids THEN None ELSE @,
                              !.primary_ip6 = IF @ \in ids THEN None ELSE @]
WithoutAddresses(D, A) ==
  [D EXCEPT !.addresses = @ \ A, !.devices = {Unlinked(d, Ids(A)) : d \in @}]

(* ON DELETE CASCADE from a device to its interfaces to their addresses.   *)
WithoutInterfaces(D, I) ==
  [WithoutAddresses(D, UNION {AddressesOf(D, i) : i \in I}) EXCEPT !.interfaces = @ \ I]
WithoutDevices(D, S) ==
  [WithoutInterfaces(D, UNION {InterfacesOf(D, d) : d \in S})
     EXCEPT !.devices = {d \in @ : d.id \notin Ids(S)}]

(* The element is done.                                                    *)
Synced(D) == /\ diff' = D /\ pc' = "sync"
             /\ UNCHANGED <<base, run, edits, job, src, aux_last>>
Done(e)   == Synced(diff \ {e})

(* A device handler that returns no model: the interfaces are skipped.     *)
SkipDevice(e) == /\ Synced({f \in diff : f.device # e.device})
                 /\ UNCHANGED <<db, next_id, objects_to_delete>>

SaveDevice(d) == db' = [db EXCEPT !.devices = Put(@, d)]

-----------------------------------------------------------------------------
(* Devices: the handlers of SSoTSync, with one site and one model. Whether *)
(* the row clashes with another one makes no difference to what is kept.   *)

CreateDevice(e) ==
  LET found == {d \in db.devices : d.name = e.device /\ d.status = "Active"}
      new   == [id |-> next_id, name |-> e.device, status |-> "Active", ssot |-> TRUE,
                safe |-> FALSE, primary_ip4 |-> None, primary_ip6 |-> None]
  IN  IF ~ Single(found) THEN Raise
      ELSE /\ \E d \in found \cup (IF found = {} THEN {new} ELSE {}) : SaveDevice(TagObject(d))
           /\ next_id' = IF found = {} THEN next_id + 1 ELSE next_id
           /\ Done(e) /\ UNCHANGED objects_to_delete

NamedDevices(n) == {d \in db.devices : d.name = n}

(* Mutant: the tag goes, the status stays.                                 *)
RecoveredTagOnly(d) == [TagObject(d) EXCEPT !.safe = FALSE]
Recovered(d) == [TagObject(d) EXCEPT !.status = "Active", !.safe = FALSE]

UpdateDevice(e) ==
  CASE NamedDevices(e.device) = {} -> SkipDevice(e)
    [] ~ Single(NamedDevices(e.device)) -> Raise
    [] OTHER -> /\ \E d \in NamedDevices(e.device) : SaveDevice(Recovered(d))
                /\ Done(e) /\ UNCHANGED <<next_id, objects_to_delete>>

DeleteDevice(e) ==
  CASE NamedDevices(e.device) = {} -> SkipDevice(e)
    [] ~ Single(NamedDevices(e.device)) -> Raise
    [] OTHER -> /\ \E d \in NamedDevices(e.device) :
                     IF job.safe THEN SaveDevice(SafeDeleted(d)) /\ UNCHANGED objects_to_delete
                     ELSE /\ objects_to_delete' = [objects_to_delete EXCEPT !["device"] = @ \cup {d.id}]
                          /\ UNCHANGED db
                /\ Done(e) /\ UNCHANGED next_id

-----------------------------------------------------------------------------
(* Interfaces                                                              *)

(* filter(name & tag).first(): any tagged device of the name, or none.     *)
TaggedDevices(e) == {d \in NamedDevices(e.device) : d.ssot}
Called(d, n)     == {i \in InterfacesOf(db, d) : i.name = n}

IsGiven(text) == text \notin {None, ""}

(* create_interface: get or create on the fields that hold something, and  *)
(* on IntegrityError an interface of the same name that is overwritten.    *)
CreatedInterface(d, x) ==
  LET new == [id |-> next_id, device |-> d.id, name |-> x.name, text |-> "", mtu |-> x.mtu,
              ssot |-> TRUE, safe |-> FALSE]
      i   == IF Called(d, x.name) = {} THEN new ELSE CHOOSE i \in Called(d, x.name) : TRUE
  IN  [TagObject(i) EXCEPT !.text = IF IsGiven(x.text) THEN x.text
                                    ELSE IF i.mtu = x.mtu THEN @ ELSE "",
                           !.mtu  = x.mtu]

(* create_ip                                                               *)
FoundIps(D, h) == IF job.ALLOW_DUPLICATE_IPS THEN {}
                  ELSE {a \in D.addresses : a.host = h /\ a.status = "Active"}
(* Mutant: save() instead of validated_save().                             *)
IpNotValidated(D, h, i) == ~ Single(FoundIps(D, h))
(* get finds several, or the address is primary to another device.         *)
IpRefused(D, h, i) ==
  \/ ~ Single(FoundIps(D, h))
  \/ \E d \in D.devices : d.id # i.device /\ Primaries(d) \cap Ids(FoundIps(D, h)) # {}
(* Mutant: the new address is not tagged.                                  *)
CreatedUntagged(D, h, i, n) ==
  [id |-> n, host |-> h, iface |-> i.id, status |-> "Active", ssot |-> FALSE, safe |-> FALSE]
CreatedIp(D, h, i, n) ==
  LET new == [id |-> n, host |-> h, iface |-> i.id, status |-> "Active", ssot |-> TRUE,
              safe |-> FALSE]
  IN  IF FoundIps(D, h) = {} THEN new
      ELSE [TagObject(CHOOSE a \in FoundIps(D, h) : TRUE) EXCEPT !.iface = i.id]

(* The device is saved as it was when the handler fetched it: what another *)
(* statement did to its row since then is undone.                          *)
WithPrimary(D, d, a) ==
  [D EXCEPT !.devices = Put(@, [d EXCEPT !.primary_ip4 = IF Family[a.host] = 4 THEN a.id ELSE @,
                                         !.primary_ip6 = IF Family[a.host] = 6 THEN a.id ELSE @])]

(* Mutant: the addresses the interface has had are kept.                   *)
KeepAndSave(e, d, i, n, host, primary) ==
  LET written == [db EXCEPT !.interfaces = Put(@, i)]
      a       == CreatedIp(written, host, i, n)
      added   == [written EXCEPT !.addresses = Put(@, a)]
  IN  IF host # None /\ IpRefused(written, host, i) THEN Raise
      ELSE /\ db' = IF host = None THEN written
                    ELSE IF primary THEN WithPrimary(added, d, a) ELSE added
           /\ next_id' = IF host = None THEN n ELSE n + 1
           /\ Done(e) /\ UNCHANGED objects_to_delete

(* The interface i of the device d, an address in the place of those it    *)
(* has, and maybe a primary address of the device.                         *)
SaveInterface(e, d, i, n, host, primary) ==
  LET written == [db EXCEPT !.interfaces = Put(@, i)]
      cleared == WithoutAddresses(written, AddressesOf(written, i))
      a       == CreatedIp(cleared, host, i, n)
      added   == [cleared EXCEPT !.addresses = Put(@, a)]
      first   == FirstAddress(written, i)
  IN  IF host # None /\ IpRefused(cleared, host, i) THEN Raise
      ELSE /\ db' = CASE host # None /\ primary -> WithPrimary(added, d, a)
                      [] host # None /\ ~ primary -> added
                      [] host = None /\ primary /\ first # {} ->
                           WithPrimary(written, d, CHOOSE x \in first : TRUE)
                      [] OTHER -> written
           /\ next_id' = IF host = None THEN n ELSE n + 1
           /\ Done(e) /\ UNCHANGED objects_to_delete

CreateInterface(e) ==
  IF TaggedDevices(e) = {} THEN Raise
  ELSE \E d \in TaggedDevices(e) :
         LET x == e.item
             n == IF Called(d, x.name) = {} THEN next_id + 1 ELSE next_id
         IN  SaveInterface(e, d, CreatedInterface(d, x), n, x.ip, x.ip # None /\ x.primary)

(* Only attributes that differ are looked at, and only values that count   *)
(* as true are written.                                                    *)
UpdateInterface(e) ==
  IF TaggedDevices(e) = {} THEN Raise
  ELSE \E d \in TaggedDevices(e) :
         IF Called(d, e.name) = {} THEN Raise
         ELSE \E i \in Called(d, e.name) :
                LET x    == e.item
                    text == "text" \in e.attrs /\ IsGiven(x.text)
                IN  SaveInterface(e, d,
                      [TagObject(i) EXCEPT !.text = IF text THEN x.text ELSE @,
                                           !.mtu  = IF "mtu" \in e.attrs THEN x.mtu ELSE @],
                      next_id, IF "ip" \in e.attrs THEN x.ip ELSE None,
                      "primary" \in e.attrs /\ x.primary)

(* The first address is retired with its interface, the others are not. An *)
(* interface has no status: the tag alone says whether it is flagged.      *)
DeleteInterface(e) ==
  IF TaggedDevices(e) = {} THEN Done(e) /\ UNCHANGED <<db, next_id, objects_to_delete>>
  ELSE \E d \in TaggedDevices(e) :
         IF Called(d, e.name) = {} THEN Raise
         ELSE \E i \in Called(d, e.name) :
                LET first == FirstAddress(db, i)
                    flagged == IF i.safe THEN i ELSE [TagObject(i) EXCEPT !.safe = TRUE]
                IN  /\ IF job.safe
                       THEN /\ db' = [db EXCEPT !.interfaces = Put(@, flagged),
                                                !.addresses = (@ \ first) \cup {SafeDeleted(a) : a \in first}]
                            /\ UNCHANGED objects_to_delete
                       ELSE /\ objects_to_delete' = [objects_to_delete EXCEPT
                                 !["interface"] = @ \cup {i.id}, !["ipaddress"] = @ \cup Ids(first)]
                            /\ UNCHANGED db
                    /\ Done(e) /\ UNCHANGED next_id

SyncElement ==
  /\ pc = "sync"
  /\ \E e \in diff :
       /\ MayBeNext(e, diff)
       /\ \/ e.name = 0 /\ e.action = "create" /\ CreateDevice(e)
          \/ e.name = 0 /\ e.action = "update" /\ UpdateDevice(e)
          \/ e.name = 0 /\ e.action = "delete" /\ DeleteDevice(e)
          \/ e.name # 0 /\ e.action = "create" /\ CreateInterface(e)
          \/ e.name # 0 /\ e.action = "update" /\ UpdateInterface(e)
          \/ e.name # 0 /\ e.action = "delete" /\ DeleteInterface(e)
       /\ here' = IF \E f \in diff' : f.device = e.device THEN e.device ELSE None

-----------------------------------------------------------------------------
(* sync_complete and the end of the job                                    *)

SyncComplete ==
  /\ pc = "sync" /\ diff = {} /\ pc' = "interface"
  /\ UNCHANGED <<db, base, next_id, run, edits, job, src, diff, here, objects_to_delete,
                 aux_last>>

(* Mutant: the mode is not looked at again before deleting.                *)
DeleteGroupAlways ==
  /\ pc \in {"interface", "device"}
  /\ pc' = IF pc = "interface" THEN "device" ELSE "done"
  /\ LET queued(T) == {r \in T : r.id \in objects_to_delete[pc]}
     IN  db' = IF pc = "interface" THEN WithoutInterfaces(db, queued(db.interfaces))
               ELSE WithoutDevices(db, queued(db.devices))
  /\ objects_to_delete' = [objects_to_delete EXCEPT ![pc] = {}]
  /\ UNCHANGED <<base, next_id, run, edits, job, src, diff, here, aux_last>>

(* No group of sync_complete is named after IPAddress: that list stays.    *)
DeleteGroup ==
  /\ pc \in {"interface", "device"}
  /\ pc' = IF pc = "interface" THEN "device" ELSE "done"
  /\ LET queued(T) == {r \in T : r.id \in objects_to_delete[pc]}
     IN  db' = CASE job.safe -> db
                 [] ~ job.safe /\ pc = "interface" -> WithoutInterfaces(db, queued(db.interfaces))
                 [] ~ job.safe /\ pc = "device" -> WithoutDevices(db, queued(db.devices))
  /\ objects_to_delete' = [objects_to_delete EXCEPT ![pc] = {}]
  /\ UNCHANGED <<base, next_id, run, edits, job, src, diff, here, aux_last>>

Remember == aux_last' = IF run = 1 \/ aux_last # None THEN src ELSE None

(* Mutant: the next job finds the snapshot of this one.                    *)
FinishKeepsSource ==
  /\ pc = "done" /\ pc' = "idle" /\ job' = None /\ diff' = {} /\ here' = None
  /\ base' = db /\ Remember
  /\ UNCHANGED <<db, next_id, run, edits, src, objects_to_delete>>

(* Foreign keys are checked when the transaction commits.                  *)
FinishJob ==
  /\ pc = "done"
  /\ IF Dangling(db) THEN Raise
     ELSE /\ Forget /\ base' = db /\ Remember
          /\ UNCHANGED <<db, next_id, run, edits, objects_to_delete>>

-----------------------------------------------------------------------------
(* Users edit what the running transaction has not written.                *)

Edit(Changes(_)) ==
  /\ edits < MaxEdits /\ edits' = edits + 1
  /\ db' = Changes(db) /\ base' = Changes(base)
  /\ UNCHANGED <<next_id, run, pc, job, src, diff, here, objects_to_delete,
                 aux_last>>

Unlocked(T) == db[T] \cap base[T]
DeviceUnlocked(i) == \E d \in Unlocked("devices") : d.id = i.device

UserDeletesAddress ==
  \E i \in Unlocked("interfaces") : \E a \in AddressesOf(db, i) \cap AddressesOf(base, i) :
    DeviceUnlocked(i) /\ Edit(LAMBDA D : WithoutAddresses(D, {a}))

UserDeletesInterface ==
  \E i \in Unlocked("interfaces") :
    /\ DeviceUnlocked(i) /\ AddressesOf(db, i) = AddressesOf(base, i)
    /\ Edit(LAMBDA D : WithoutInterfaces(D, {i}))

UserUntags ==
  \E d \in Unlocked("devices") :
    d.ssot /\ Edit(LAMBDA D : [D EXCEPT !.devices = Put(@, [d EXCEPT !.ssot = FALSE])])

UserSetsPrimary ==
  \E d \in Unlocked("devices") : \E i \in InterfacesOf(db, d) \cap Unlocked("interfaces") :
    \E a \in AddressesOf(db, i) \cap AddressesOf(base, i) :
      Edit(LAMBDA D : WithPrimary(D, d, a))

JobStep == LoadTarget \/ SyncElement \/ SyncComplete \/ DeleteGroup \/ FinishJob
Next == \/ StartJob \/ JobStep
        \/ UserDeletesAddress \/ UserDeletesInterface \/ UserUntags \/ UserSetsPrimary

(* A worker that has begun a job carries it on.                            *)
Spec == Init /\ [][Next]_vars /\ WF_vars(JobStep)

-----------------------------------------------------------------------------
(* Properties                                                              *)

Running   == pc # "idle"
Completed == pc = "done"

(* What is committed never has a primary address that is not an address of *)
(* the device itself, though handlers delete addresses, save devices they  *)
(* fetched before and take addresses over from other interfaces.           *)
CommittedPrimaryIsOwn == PrimaryIsOwn(base)

(* An interface to which the job has given an address has that one only:   *)
(* "Interfaces only support synchronizing 1 IP Address".                   *)
OnlyTheNewAddress ==
  \A i \in db.interfaces : \A a \in AddressesOf(db, i) :
    a \notin base.addresses /\ a.status = "Active" => AddressesOf(db, i) = {a}

(* A job in safe delete mode loses no device and no interface, and where   *)
(* duplicates are allowed an address only if the interface has a new one.  *)
SafeRunKeepsInterfaces ==
  Running /\ job.safe =>
    /\ Ids(base.devices) \subseteq Ids(db.devices)
    /\ Ids(base.interfaces) \subseteq Ids(db.interfaces)
    /\ job.ALLOW_DUPLICATE_IPS =>
         \A a \in base.addresses : a.id \notin Ids(db.addresses) =>
           \E b \in db.addresses : b.iface = a.iface /\ b.id \notin Ids(base.addresses)

(* The last job has synced the same snapshot, no job before has left a     *)
(* queue behind (StaleQueue of SSoTSync), no user edits anything, and a    *)
(* name stands for one device (SSoTSync and OverlappingJobs show how it    *)
(* may come to stand for two).                                             *)
Again == /\ Completed /\ aux_last = src /\ edits = 0
         /\ \A c, d \in db.devices : c.name = d.name => c = d

(* One job may leave a device without a primary address. The next one with *)
(* the same snapshot sets it to the address IP Fabric logs in with, if the *)
(* source has an interface for it (LoginInterfaceLoaded of IPFabricLoad).  *)
(* An address that IP Fabric lists on two interfaces may go from one to    *)
(* the other in every job, and the device be left without in every job.    *)
ListedOnce(S, x) == \A y \in Source(S) : y.ip = x.ip => y = x
SecondRunSetsPrimary ==
  Again =>
    \A x \in Source(src) : x.primary /\ ListedOnce(src, x) =>
      \E d \in db.devices : \E a \in db.addresses :
        d.name = x.device /\ a.host = x.ip /\ a.id \in Primaries(d)

(* What a third job with the same snapshot would still find to do is what  *)
(* update never writes, a value that counts as false, or what the options  *)
(* keep: flagged interfaces and devices, a primary address of version 4    *)
(* that hides the one of version 6. And delete leaves the interfaces of a  *)
(* device alone that is not tagged when the job begins.                    *)
Hidden(x) == x.primary => \E d \in db.devices : d.name = x.device /\ d.primary_ip4 # None
Remaining == UNION {DiffFrom(src, db, L) : L \in Loads(db, job.tagged_only)}
SecondRunSettles ==
  Again /\ (\A x \in Source(src) : x.ip # None => ListedOnce(src, x)) =>
    \A e \in Remaining :
      CASE e.action = "create" -> FALSE
        [] e.action = "delete" ->
             job.safe \/ (e.name # 0 /\ \E d \in base.devices : d.name = e.device /\ ~ d.ssot)
        [] e.action = "update" ->
             /\ "status" \notin e.attrs /\ "mtu" \notin e.attrs
             /\ "text" \in e.attrs => ~ IsGiven(e.item.text)
             /\ "ip" \in e.attrs => e.item.ip = None
             /\ "primary" \in e.attrs => Hidden(e.item)

(* A job is a transaction (SyncTransaction) that comes to its end: what it *)
(* commits keeps every device and interface in safe delete mode, marks the *)
(* interfaces and addresses it wrote, and has primary addresses in order.  *)
JobPromise(o, D, E) ==
  /\ \A r \in (E.interfaces \ D.interfaces) \cup (E.addresses \ D.addresses) : r.ssot
  /\ o.safe => /\ Ids(D.devices) \subseteq Ids(E.devices)
               /\ Ids(D.interfaces) \subseteq Ids(E.interfaces)
T == INSTANCE SyncTransaction WITH
       rows <- base, InitialDatabases <- InitialDbs, Consistent <- PrimaryIsOwn,
       Promise <- JobPromise
Implements == T!Spec

-----------------------------------------------------------------------------
(* What the documents say, and the code does not do: violated.             *)

(* "Records are not deleted" in safe delete mode.                          *)
SafeRunKeepsAddresses == Running /\ job.safe => Ids(base.addresses) \subseteq Ids(db.addresses)
=============================================================================
