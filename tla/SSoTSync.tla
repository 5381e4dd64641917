------------------------------ MODULE SSoTSync ------------------------------
(***************************************************************************)
(* The sync job: IpFabricDataSource.sync_data (jobs.py) run again and      *)
(* again by one worker process, with the handlers of the DiffSync models   *)
(* (diffsync_models.py) and NautobotDiffSync.sync_complete.                *)
(*                                                                         *)
(* Nautobot runs a job inside one database transaction: db is what the     *)
(* running job sees, base what is committed. The process outlives its      *)
(* jobs, and with it the class attributes safe_delete_mode and             *)
(* objects_to_delete: no transaction rolls them back.                      *)
(*                                                                         *)
(* Interfaces and their IP addresses are not part of this module.          *)
(***************************************************************************)
EXTENDS DiffSync

CONSTANTS
  Snapshots,    \* the contents of the snapshots IP Fabric may offer
  Options,      \* the options users start the job with
  InitialRows,  \* the databases the plugin may be installed on
  MaxRuns,      \* bound on the number of jobs
  MaxEdits      \* bound on the number of edits by users

ASSUME SnapshotsAssumption == \A S \in Snapshots : IsSnapshot(S)

Option == [safe: BOOLEAN, tagged_only: BOOLEAN, site_filter: Sites \cup {None},
           dry_run: BOOLEAN]
ASSUME OptionsAssumption == Options \subseteq Option /\ None \notin Option

IsDatabase(R) == /\ R \subseteq Row
                 /\ \A r \in R : r.born \leq 0 /\ SiteExists(R, r.site)
                 /\ \A q, r \in R : Pk(q) = Pk(r) => q = r
                 /\ \A q, r \in R : Key(q) = Key(r) /\ q.kind = "location" => q = r
                 /\ Numbered(R)
ASSUME InitialRowsAssumption == \A R \in InitialRows : IsDatabase(R)
ASSUME BoundsAssumption == MaxRuns \in Nat /\ MaxEdits \in Nat

VARIABLES
  db,                 \* the rows as the running job sees them
  base,               \* the committed rows
  stamped,            \* primary keys the running job wrote today's date on
  run,                \* number of jobs started
  edits,              \* number of edits by users
  pc,                 \* what the job does next
  job,                \* options of the running job
  src,                \* store of the IPFabricDiffSync adapter
  dst,                \* store of the NautobotDiffSync adapter
  diff,               \* elements of the diff still to be synced
  here,               \* the site whose elements are being synced
  safe_delete_mode,   \* class attribute of DiffSyncExtras and of the adapters
  objects_to_delete,  \* class attribute of NautobotDiffSync: queued rows
  aux_leftover,       \* history: what was queued when the running job started
  aux_edits           \* history: number of edits when the running job started

tables  == <<db, base, stamped>>
process == <<safe_delete_mode, objects_to_delete>>
locals  == <<job, src, dst, diff, here, aux_leftover, aux_edits>>
vars    == <<tables, process, locals, run, edits, pc>>

(* Mutant: sites before the devices that still stand in them.              *)
SitesFirst == [vlan |-> "location", location |-> "device", device |-> "done"]

(* sync_complete works through one kind of object after the other.         *)
Cleanup == [vlan |-> "device", device |-> "location", location |-> "done"]
Phases  == {"idle", "source", "target", "diff", "sync", "done"} \cup DOMAIN Cleanup

TypeOK ==
  /\ db \subseteq Row /\ base \subseteq Row /\ stamped \subseteq PkType
  /\ run \in Nat /\ edits \in Nat
  /\ pc \in Phases
  /\ job \in (IF pc = "idle" THEN {None} ELSE Option)
  /\ src \subseteq Item /\ dst \subseteq Model /\ diff \subseteq Element
  /\ here \in Sites \cup {None}
  /\ safe_delete_mode \in BOOLEAN
  /\ objects_to_delete \subseteq PkType /\ aux_leftover \subseteq PkType /\ aux_edits \in Nat

Init ==
  /\ db \in InitialRows /\ base = db /\ stamped = {}
  /\ run = 0 /\ edits = 0 /\ pc = "idle"
  /\ job = None /\ src = {} /\ dst = {} /\ diff = {} /\ here = None
  /\ aux_leftover = {} /\ aux_edits = 0
  /\ safe_delete_mode = TRUE /\ objects_to_delete = {}

Single(S) == \A p, q \in S : p = q

(* The end of a job: its adapters and models are garbage.                  *)
Forget == /\ pc' = "idle" /\ job' = None /\ stamped' = {}
          /\ src' = {} /\ dst' = {} /\ diff' = {} /\ here' = None
          /\ aux_leftover' = {} /\ aux_edits' = 0

(* An exception leaves sync_data: Nautobot rolls the transaction back.     *)
Raise == Forget /\ db' = base /\ UNCHANGED <<base, process, run, edits>>

-----------------------------------------------------------------------------
(* sync_data up to the diff                                                *)

StartJob ==
  /\ pc = "idle" /\ run < MaxRuns
  /\ \E o \in Options : /\ o.site_filter # None => SiteExists(db, o.site_filter)
                        /\ job' = o
  /\ pc' = "source" /\ run' = run + 1
  /\ aux_leftover' = objects_to_delete /\ aux_edits' = edits
  /\ UNCHANGED <<tables, process, edits, src, dst, diff, here>>

(* No IP Fabric client: sync_data logs a failure and returns.              *)
ClientNotReady ==
  /\ pc = "source" /\ Forget /\ base' = db
  /\ UNCHANGED <<db, process, run, edits>>

LoadSource ==
  /\ pc = "source" /\ pc' = "target"
  /\ src' \in Snapshots
  /\ UNCHANGED <<tables, process, run, edits, job, dst, diff, here, aux_leftover, aux_edits>>

(* A REST call of the IP Fabric client fails, the site to filter by is     *)
(* gone, or an option is missing from the request.                         *)
SourceFails == pc = "source" /\ Raise

LoadTarget ==
  /\ pc = "target" /\ pc' = "diff"
  /\ safe_delete_mode' = job.safe
  /\ \E L \in Loads(db, job.tagged_only, job.site_filter) : dst' = {ToModel(r) : r \in L}
  /\ UNCHANGED <<tables, objects_to_delete, run, edits, job, src, diff, here,
                 aux_leftover, aux_edits>>

(* Mutant: the option dry_run is not looked at.                            *)
CalculateAndSync ==
  /\ pc = "diff"
  /\ diff' = DiffFrom(src, dst)
  /\ pc' = IF diff' = {} THEN "done" ELSE "sync"
  /\ UNCHANGED <<tables, process, run, edits, job, src, dst, here, aux_leftover, aux_edits>>

(* A dry run stops here. sync_from calculates the same diff once more and  *)
(* calls sync_complete only when some element had something to change.     *)
CalculateDiff ==
  /\ pc = "diff"
  /\ diff' = DiffFrom(src, dst)
  /\ pc' = IF job.dry_run \/ diff' = {} THEN "done" ELSE "sync"
  /\ UNCHANGED <<tables, process, run, edits, job, src, dst, here, aux_leftover, aux_edits>>

-----------------------------------------------------------------------------
(* The handlers. Each one syncs the element e.                             *)

Save(R, old, new) == db' = (R \ {old}) \cup {new}
Stamp(S) == stamped' = stamped \cup S

(* The element is done; M is what becomes of the target store.             *)
Synced(e, M) == /\ diff' = diff \ {e} /\ dst' = M /\ pc' = "sync"
                /\ here' = IF \E f \in diff' : f.site = e.site THEN e.site ELSE None
                /\ UNCHANGED <<base, run, edits, job, src, safe_delete_mode, aux_leftover, aux_edits>>

Created(e) == dst \cup {[kind |-> e.kind, name |-> e.name, site |-> e.site,
                         data |-> e.data, status |-> "Active", pk |-> None]}
Deleted(e) == {m \in dst : Uid(m) # Uid(e)}

(* The handler found no row and returned no model: nothing changes.        *)
Skip(e) == Synced(e, dst) /\ UNCHANGED <<db, stamped, objects_to_delete>>

CreateLocation(e) ==
  /\ db' = CreateSite(db, e.name, e.data, run)
  /\ Stamp(Pks(Named(db', "location", e.name)))
  /\ Synced(e, Created(e)) /\ UNCHANGED objects_to_delete

(* Mutant: a device is created whether or not its site is there.           *)
CreateDeviceAnywhere(e) ==
  LET r == NewRow("device", e.name, e.site, e.data, run)
  IN  Save(db, r, TagObject(r)) /\ Stamp({Pk(r)}) /\ Synced(e, Created(e))
        /\ UNCHANGED objects_to_delete

(* The tag is added, then validated_save refuses a row that clashes; that  *)
(* ValidationError is caught and logged, and the row stays.                *)
CreateDevice(e) ==
  LET rows  == IF SiteExists(db, e.site) THEN db ELSE CreateSite(db, e.site, None, run)
      found == Matching(rows, "device", e.name, e.site, e.data)
      new   == NewRow("device", e.name, e.site, e.data, run)
  IN  IF ~ Single(found) THEN Raise
      ELSE \E r \in (IF found = {} THEN {new} ELSE found) :
             /\ Save(rows, r, TagObject(r))
             /\ Stamp((IF Clashes(rows, r) THEN {} ELSE {Pk(r)})
                        \cup (Pks(rows) \ Pks(db)))
             /\ Synced(e, Created(e)) /\ UNCHANGED objects_to_delete

CreateVlan(e) ==
  LET found == Matching(db, "vlan", e.name, e.site, e.data)
      new   == NewRow("vlan", e.name, e.site, e.data, run)
  IN  IF ~ SiteExists(db, e.site) \/ ~ Single(found) THEN Raise
      ELSE \E r \in (IF found = {} THEN {new} ELSE found) :
             /\ Save(db, r, TagObject(r)) /\ Stamp({Pk(r)})
             /\ Synced(e, Created(e)) /\ UNCHANGED objects_to_delete

(* Mutant: the tag goes, the status stays.                                 *)
UpdatedTagOnly(r, e) ==
  [TagObject(r) EXCEPT !.safe = IF "status" \in e.attrs THEN FALSE ELSE @,
                       !.data = IF "site_id" \in e.attrs THEN e.data ELSE @]

(* What the three update handlers share: the status comes back to Active   *)
(* and the safe-delete tag goes, but only when the status is in the diff.  *)
Updated(r, e) ==
  LET back == "status" \in e.attrs
  IN  [TagObject(r) EXCEPT !.status = IF back THEN "Active" ELSE @,
                           !.safe   = IF back THEN FALSE ELSE @,
                           !.data   = IF "site_id" \in e.attrs /\ e.data # None
                                      THEN e.data ELSE @]

UpdateRow(e, r) == /\ Save(db, r, Updated(r, e)) /\ Stamp({Pk(r)})
                   /\ Synced(e, dst) /\ UNCHANGED objects_to_delete

UpdateLocation(e) ==
  IF ~ SiteExists(db, e.name) THEN Raise
  ELSE \E r \in Named(db, "location", e.name) : UpdateRow(e, r)

(* attrs["vendor"] is a KeyError when the model differs and the vendor     *)
(* does not; when both do, the new type is set on an attribute "type" that *)
(* no column of Device backs, so that the row keeps its data.              *)
UpdateDevice(e) ==
  LET found == Named(db, "device", e.name)
  IN  CASE found = {} -> Skip(e)
        [] ~ Single(found) \/ ("model" \in e.attrs /\ "vendor" \notin e.attrs) -> Raise
        [] OTHER -> \E r \in found : UpdateRow(e, r)

(* The row is looked up by the vid it was loaded with; a new vid is not    *)
(* written. The handler returns no model.                                  *)
UpdateVlan(e) ==
  \E m \in {m \in dst : Uid(m) = Uid(e)} :
    LET found == {r \in Named(db, "vlan", e.name) : r.site = e.site /\ r.data = m.data}
    IN  IF found = {} \/ ~ Single(found) THEN Raise
        ELSE \E r \in found : UpdateRow(e, r)

(* Mutant: stamps a row again that is flagged already.                     *)
SafeDeleteStamps(e, r) ==
  /\ IF safe_delete_mode
     THEN Save(db, r, SafeDeleted(r)) /\ Stamp({Pk(r)}) /\ UNCHANGED objects_to_delete
     ELSE /\ objects_to_delete' = objects_to_delete \cup {Pk(r)}
          /\ UNCHANGED <<db, stamped>>
  /\ Synced(e, Deleted(e))

(* safe_delete, then the model leaves the store.                           *)
SafeDelete(e, r) ==
  /\ IF safe_delete_mode
     THEN /\ Save(db, r, SafeDeleted(r))
          /\ Stamp(IF IsFlagged(r) THEN {} ELSE {Pk(r)})
          /\ UNCHANGED objects_to_delete
     ELSE /\ objects_to_delete' = objects_to_delete \cup {Pk(r)}
          /\ UNCHANGED <<db, stamped>>
  /\ Synced(e, Deleted(e))

DeleteLocation(e) ==
  IF ~ SiteExists(db, e.name) THEN Raise
  ELSE \E r \in Named(db, "location", e.name) : SafeDelete(e, r)

(* Mutant: .filter(name=...).first() instead of .get(name=...).            *)
DeleteFirstDevice(e) ==
  LET found == Named(db, "device", e.name)
  IN  IF found = {} THEN Skip(e) ELSE \E r \in found : SafeDelete(e, r)

DeleteDevice(e) ==
  LET found == Named(db, "device", e.name)
  IN  CASE found = {} -> Skip(e)
        [] ~ Single(found) -> Raise
        [] OTHER -> \E r \in found : SafeDelete(e, r)

DeleteVlan(e) ==
  \E m \in {m \in dst : Uid(m) = Uid(e)} :
    LET found == {r \in db : Pk(r) = m.pk}
    IN  IF found = {} THEN Raise ELSE \E r \in found : SafeDelete(e, r)

(* Mutant: the element is tried again and again.                           *)
RetryCreate == UNCHANGED vars

(* The store already holds a model with this unique id: sync_data catches  *)
(* ObjectNotCreated, skips all that is left of the diff, and goes on to    *)
(* report "Sync complete.". sync_complete is not called.                   *)
ObjectNotCreated ==
  pc' = "done" /\ UNCHANGED <<tables, process, locals, run, edits>>

Create(e) == IF Stored(dst, e) THEN ObjectNotCreated
             ELSE CASE e.kind = "location" -> CreateLocation(e)
                    [] e.kind = "device"   -> CreateDevice(e)
                    [] e.kind = "vlan"     -> CreateVlan(e)
Update(e) == CASE e.kind = "location" -> UpdateLocation(e)
               [] e.kind = "device"   -> UpdateDevice(e)
               [] e.kind = "vlan"     -> UpdateVlan(e)
Delete(e) == CASE e.kind = "location" -> DeleteLocation(e)
               [] e.kind = "device"   -> DeleteDevice(e)
               [] e.kind = "vlan"     -> DeleteVlan(e)

SyncElement ==
  /\ pc = "sync"
  /\ \E e \in diff : /\ MayBeNext(e, diff, here, src)
                     /\ \/ e.action = "create" /\ Create(e)
                        \/ e.action = "update" /\ Update(e)
                        \/ e.action = "delete" /\ Delete(e)

-----------------------------------------------------------------------------
(* sync_complete and the end of the job                                    *)

SyncComplete ==
  /\ pc = "sync" /\ diff = {}
  /\ pc' = "vlan"
  /\ UNCHANGED <<tables, process, locals, run, edits>>

(* Mutant: the mode is not looked at again before deleting.                *)
DeleteGroupAlways ==
  /\ pc \in DOMAIN Cleanup
  /\ db' = {r \in db : Pk(r) \in objects_to_delete /\ r.kind = pc => Protected(db, r)}
  /\ objects_to_delete' = {p \in objects_to_delete : p.kind # pc}
  /\ pc' = Cleanup[pc]
  /\ UNCHANGED <<base, stamped, safe_delete_mode, locals, run, edits>>

(* The queued objects of one kind are deleted, unless the mode is safe or  *)
(* Nautobot protects them; their list is emptied in any case.              *)
DeleteGroup ==
  /\ pc \in DOMAIN Cleanup
  /\ LET queued == {r \in db : r.kind = pc /\ Pk(r) \in objects_to_delete}
     IN  db' = IF safe_delete_mode THEN db ELSE db \ {r \in queued : ~ Protected(db, r)}
  /\ objects_to_delete' = {p \in objects_to_delete : p.kind # pc}
  /\ pc' = Cleanup[pc]
  /\ UNCHANGED <<base, stamped, safe_delete_mode, locals, run, edits>>

(* Mutant: the next job finds the options of this one.                     *)
FinishKeepsOptions ==
  /\ pc = "done" /\ pc' = "idle" /\ base' = db
  /\ stamped' = {} /\ src' = {} /\ dst' = {} /\ diff' = {} /\ here' = None
  /\ aux_leftover' = {} /\ aux_edits' = 0
  /\ UNCHANGED <<db, job, process, run, edits>>

(* "Sync complete." is logged and the transaction commits.                 *)
FinishJob ==
  /\ pc = "done"
  /\ Forget /\ base' = db
  /\ UNCHANGED <<db, process, run, edits>>

-----------------------------------------------------------------------------
(* What else happens to the database and to the process                    *)

(* A row the transaction has not written; the others are locked.           *)
Unlocked == db \cap base
UserStamp == MaxRuns + edits + 1

UserDeletes ==
  /\ edits < MaxEdits /\ edits' = edits + 1
  /\ \E r \in Unlocked : /\ ~ Protected(db \cup base, r)
                         /\ db'   = {q \in db : Pk(q) # Pk(r)}
                         /\ base' = {q \in base : Pk(q) # Pk(r)}
  /\ UNCHANGED <<stamped, process, locals, run, pc>>

UserEdits ==
  /\ edits < MaxEdits /\ edits' = edits + 1
  /\ \E r \in Unlocked :
       \E q \in {[r EXCEPT !.status = "Active"], [r EXCEPT !.ssot = ~ @]} \ {r} :
         /\ db' = (db \ {r}) \cup {q} /\ base' = (base \ {r}) \cup {q}
  /\ UNCHANGED <<stamped, process, locals, run, pc>>

UserAdds ==
  /\ edits < MaxEdits /\ edits' = edits + 1
  /\ \E S \in Snapshots : \E x \in S :
       LET r == NewRow(x.kind, x.name, x.site, x.data, UserStamp)
       IN  /\ IF r.kind = "location" THEN ~ SiteExists(db \cup base, r.name)
              ELSE SiteExists(Unlocked, r.site) /\ ~ Clashes(db \cup base, r)
           /\ db' = db \cup {r} /\ base' = base \cup {r}
  /\ UNCHANGED <<stamped, process, locals, run, pc>>

(* The worker process dies or is recycled, and a new one takes over.       *)
WorkerRestart ==
  /\ Forget /\ db' = base
  /\ safe_delete_mode' = TRUE /\ objects_to_delete' = {}
  /\ UNCHANGED <<base, run, edits>>

JobStep == \/ ClientNotReady \/ LoadSource \/ SourceFails \/ LoadTarget \/ CalculateDiff
           \/ SyncElement \/ SyncComplete \/ DeleteGroup \/ FinishJob
Next == \/ StartJob \/ JobStep
        \/ UserDeletes \/ UserEdits \/ UserAdds \/ WorkerRestart

(* A worker that has begun a job carries it on as long as it lives.        *)
Fairness == WF_vars(JobStep)
Spec == Init /\ [][Next]_vars /\ Fairness

-----------------------------------------------------------------------------
(* Properties. base is the database as it was before the running job, but  *)
(* for the edits of users.                                                 *)

Running    == pc # "idle"
Alone      == Running /\ edits = aux_edits  \* no user has edited since the job began
Unfiltered == ~ job.tagged_only /\ job.site_filter = None
Completed  == pc = "done" /\ diff = {} /\ ~ job.dry_run
Flagged    == {r \in base : IsFlagged(r)}

OneRowPer(Id(_), R) == \A q, r \in R : Id(q) = Id(r) => q = r

(* A device or a VLAN never stands in a site that is gone, neither in what *)
(* the job sees nor in what is committed: create looks the site up again,  *)
(* cleanup goes from VLANs to devices to sites, users edit meanwhile.      *)
HasSites(R) == \A r \in R : SiteExists(R, r.site)
ReferentialIntegrity == HasSites(db) /\ HasSites(base)

(* "Records are not deleted": whatever earlier jobs have left in the queue *)
(* and in the class attributes, a job in safe delete mode removes no row   *)
(* that was there before it.                                               *)
SafeRunKeepsRows == Running /\ job.safe => Pks(base) \subseteq Pks(db)

(* A row that is flagged already, and still missing from IP Fabric, is not *)
(* modified by a job in safe delete mode, its sync date included, unless   *)
(* users edit meanwhile (and take one of two devices of a name away).      *)
FlaggedStayUntouched ==
  Alone /\ job.safe =>
    \A r \in Flagged : Key(r) \notin Keys(src) => r \in db /\ Pk(r) \notin stamped

(* The options of the job bound what it deletes or flags: no row of        *)
(* another site than the site filter's, and for a tagged-only job no site  *)
(* and no device without the tag, unless IP Fabric lists it. A user who    *)
(* takes the tag off meanwhile is not heard.                               *)
ScopeRespected ==
  Alone /\ aux_leftover = {} =>
    \A r \in base :
      /\ Key(r) \notin Keys(src)
      /\ \/ job.site_filter \notin {None, r.site}
         \/ job.tagged_only /\ r.kind # "vlan" /\ ~ r.ssot
      => r \in db

(* A row that IP Fabric lists in the snapshot of the job is never removed: *)
(* handlers look devices up by name alone, a queue outlives its elements,  *)
(* and users who edit meanwhile can make the one look like the other.      *)
SourcedRowsSurvive ==
  Alone /\ aux_leftover = {} =>
    \A r \in base : Key(r) \in Keys(src) => Pk(r) \in Pks(db)

(* With safe delete mode off and no filter, a job that got to its end has  *)
(* made Nautobot hold what IP Fabric holds: nothing protected what had to  *)
(* go, nothing that had to come is missing.                                *)
UnsafeRunMirrors ==
  Alone /\ Completed /\ ~ job.safe /\ Unfiltered /\ aux_leftover = {} /\ OneRowPer(Uid, base) =>
    Keys(db) = Keys(src)

(* An unfiltered job never makes a second row for a site, for a device of  *)
(* a site or for a VLAN of a site.                                         *)
UnfilteredRunAddsNoDuplicate ==
  Alone /\ Unfiltered /\ OneRowPer(Key, base) => OneRowPer(Key, db)

(* Once an unfiltered job got to its end, the same snapshot finds nothing  *)
(* to do, in what is modelled of the objects, but what is flagged and what *)
(* update cannot write (the model of a device, the vid of a VLAN).         *)
Remaining == UNION {DiffFrom(src, {ToModel(r) : r \in L}) : L \in Loads(db, FALSE, None)}
RunSettles ==
  /\ Alone /\ Completed /\ Unfiltered /\ aux_leftover = {}
  /\ OneRowPer(Uid, base) /\ OneRowPer(Uid, db)
  =>
    \A e \in Remaining :
      \/ e.action = "delete" /\ \A r \in db : Key(r) = Key(e) => job.safe /\ IsFlagged(r)
      \/ e.action = "update" /\ e.attrs \subseteq {"model", "vendor", "vid"}

(* A job is a transaction (SyncTransaction): nothing of it is committed    *)
(* before it ends, and what is committed then bears the mark of the sync,  *)
(* is nothing for a dry run, and lacks no row for a safe one.              *)
JobPromise(o, R, N) ==
  /\ \A r \in N \ R : r.ssot
  /\ o.dry_run => N = R
  /\ o.safe => Pks(R) \subseteq Pks(N)
T == INSTANCE SyncTransaction WITH
       rows <- base, InitialDatabases <- InitialRows, Consistent <- HasSites,
       Promise <- JobPromise
KeepsPromise == T!SafeSpec

(* And every job that has started comes to its end.                        *)
Implements == T!Spec

-----------------------------------------------------------------------------
(* What a document or a message of the program says, and the code does not *)
(* do: each of these is violated.                                          *)

(* sync_complete deletes "any objects from Nautobot that need to be        *)
(* deleted": none that the snapshot of this very job lists.                *)
DeletesOnlyWhatNeedsToBe ==
  \A r \in base : Key(r) \in Keys(src) => Pk(r) \in Pks(db)

(* "Sync complete.": the whole diff has been synced.                       *)
SyncCompleteMeansSynced == pc = "done" /\ ~ job.dry_run => diff = {}

(* siteName -> Device.site: a device that moves to another site is still   *)
(* one device of Nautobot, as every lookup by name expects.                *)
DeviceFollowsItsSite == \A n \in Devices : Single(Named(base, "device", n))
=============================================================================
