# Verification of nautobot-plugin-ssot-ipfabric

The plugin copies sites, devices, interfaces, addresses and VLANs from an IP
Fabric snapshot into Nautobot. A job loads both sides into DiffSync adapters,
computes a diff and lets the handlers of the DiffSync models write Nautobot's
tables. This directory holds TLA+ modules of that program, the TLC runs that
check them, and proofs that TLAPS checks. Paths below are relative to
`src/nautobot_ssot_ipfabric/` unless they begin with `docs/`.

## Inventory

| Component | Source | State it keeps | Operations | Modelled by |
| --- | --- | --- | --- | --- |
| Sync job | `jobs.py` | class attributes `client`, `snapshot`; the options of the request | `_get_vars`, `sync_data` | `SSoTSync`, `JobForm`, `IPFabricClient` |
| DiffSync models | `diffsync/diffsync_models.py` | class attribute `safe_delete_mode`; one instance per object | `create`, `update`, `delete` of Location, Device, Interface, Vlan; `safe_delete` | `SSoTSync`, `InterfaceSync`, `Lookups` |
| Nautobot adapter | `diffsync/adapter_nautobot.py`, `adapters_shared.py` | class attributes `objects_to_delete`, `safe_delete_mode`; the target store | `load` and its parts, `sync_complete` | `DiffSync`, `SSoTSync`, `InterfaceSync` |
| IP Fabric adapter | `diffsync/adapter_ipfabric.py` | the source store | `load` and its parts, `pseudo_management_interface` | `IPFabricLoad`, `IPFabricInterfaces` |
| Nautobot helpers | `utilities/nbutils.py` | none: the rows of Nautobot | `create_site`, `create_vlan`, `create_interface`, `create_ip`, `tag_object`, get-or-create of lookup rows | `Tags`, `Nautobot`, `InterfaceSync`, `Lookups` |
| Several workers | `diffsync/diffsync_models.py`, `utilities/nbutils.py` | a transaction and its locks, per job | the handlers, interleaved | `OverlappingJobs` |
| ChatOps command | `workers.py` | none: the menus of a dialog; a job result | `prompt_for_bool`, `ssot_sync_to_nautobot` | `ChatCommand` |
| Plugin start | `__init__.py`, `signals.py` | two tags, two custom fields | `nautobot_database_ready_callback` | `Lookups` |
| diffsync library | external (1.x) | stores and diff | `diff_from`, `sync_from`, `add` | as it is used |
| Nautobot, Django, PostgreSQL | external (Nautobot 1.5) | tables, transactions, locks | ORM, `run_job`, job forms | as they are used |
| IP Fabric and its client | external (ipfabric 6.0) | snapshots, tables | `loaded_snapshots`, `snapshot_id`, `update` | as they are used |

How they interact. A user fills in the form that `_get_vars` makes from the
snapshots of a cached client, or answers three questions of the chat command.
Nautobot's `run_job` calls `_get_vars` again in the worker, opens one
transaction and calls `sync_data`. That sets `safe_delete_mode` on two classes,
lets both adapters load, and calls `dest.sync_from(source)`. The library walks
the diff, a site at a time and siblings in the order in which they were loaded
(what the source has first, then what only Nautobot has), and calls one handler
per element; handlers write the database through the helpers. In safe delete
mode a delete changes status and tags; otherwise it puts the row on the
class-level queue `objects_to_delete`, which `sync_complete`, called by the
library after the last element, works through kind by kind. An exception rolls
the transaction back but not the class attributes; the worker process goes on to
the next job with them.

What is hard here:

- **state that outlives a job**: the queue, the mode and the client are class
  attributes of a process;
- **partial failure**: `ObjectNotCreated` and `ValidationError` are caught in
  the middle of the work, other exceptions end the job; the chat command runs
  the job where nobody catches anything;
- **ordering**: the diff is a tree, visited site by site, while the store
  identifies devices by their own name only; the rows of IP Fabric come in some
  order, which becomes the order of the sync, and the first one of a name wins;
- **stale lookups**: handlers look rows up again by name, long after the load;
  a device is fetched before its addresses are deleted and saved afterwards;
- **options that narrow the view** of one side only: what a job does not load
  it takes for missing;
- **other actors**: users who edit the same rows while a job runs, jobs of other
  workers, IP Fabric that goes down or unloads a snapshot.

What makes each component correct:

- *sync job, models, Nautobot adapter*: a job in safe delete mode removes no
  site, device, VLAN or interface; what is flagged is left alone; options bound
  what may be touched; what the snapshot lists survives; a job that got to its
  end leaves Nautobot as the snapshot says, and a second look finds nothing to
  do; no row refers to one that is gone; a job is a transaction that ends.
- *interfaces and addresses*: an interface that got an address has that one
  only; the primary address of a device is one of its own; a second job with
  the same snapshot settles what a first one cannot.
- *form and client*: the form offers what is loaded; a job reads the snapshot
  that was chosen or none; it ends.
- *IP Fabric adapter*: the store has one model per unique id, made from a row
  that can be decided by the tables alone; a login address is never lost.
- *lookup rows and plugin start*: a stamped date can be seen; a new device gets
  what IP Fabric lists; its create ends a job only where two models of a vendor
  share a slug, or a user gave the name or the slug of the plugin's tag, or the
  slug of its role, to another.
- *ChatOps*: a job has the options its user gave, and gets a final status.
- *several workers*: a device is made twice only by overlapping jobs, or by a
  job that lists it where it did not find it; every job ends, although jobs wait
  for each other, in circles too.

## Modules

`Tags` has what a sync writes on every kind of row: the tag, the status and the
flag of safe delete mode. It is shared by the two models of the database.

**`SyncTransaction`** is the abstract specification: a job begins, and aborts or
commits at once what its options promise, while users edit; nothing else touches
a row (edits are counted, so that no step of a job passes for one). `SSoTSync`
and `InterfaceSync` instantiate it (`T`) with their own committed rows,
consistency and promise, and implement it. The mapping is `rows <- base`, `job
<- job`, `edits <- edits`: every step from loading to the last cleanup is a
stutter, `FinishJob` is `Commit`, a raised exception, a worker that is replaced
and a client that is not ready are `Abort`.

**Sites, devices and VLANs.** `Nautobot` is the database: one set of rows, told
apart by `kind`. A name is a natural, its rank in the order in which Nautobot's
queries return rows. A row keeps its status, its two tags and one datum: the IP
Fabric id of a site, the model of a device, the number of a VLAN. Its primary
key includes `born`, which says what created the row. The module holds
`CreateSite`, the lookup of `get_or_create` (`Matching`), and what Nautobot
refuses (`Protected`, `Clashes`). `DiffSync` holds the two stores and the diff:
`InScope` and `Loads` are the Nautobot adapter's load (with duplicates skipped
in either order, so `Loads` is a set of stores), `DiffFrom` the library's diff
and `MayBeNext` its order: locations before their devices, devices before VLANs,
one location after the other, and siblings as they were loaded. The source loads
in the order of IP Fabric's tables, which may be any; what only the target has
comes after it, in the order of the queries. `SSoTSync` is the state machine
over both.

| Variable of `SSoTSync` | Code |
| --- | --- |
| `db`, `base` | what the transaction sees, what is committed |
| `stamped` | rows whose "last synced" date this job wrote |
| `pc` | the place in `sync_data` |
| `job` | `self.kwargs` |
| `src`, `dst`, `diff` | the adapters' stores; the elements still to be synced |
| `here` | the location the library is at |
| `safe_delete_mode`, `objects_to_delete` | the class attributes |
| `aux_leftover` | history variable: the queue as the running job found it |
| `aux_edits` | history variable: `edits` when the running job began |
| `run`, `edits` | counters, bounded by `MaxRuns`, `MaxEdits` |

| Action of `SSoTSync` | Code |
| --- | --- |
| `StartJob`, `ClientNotReady`, `LoadSource`, `SourceFails`, `LoadTarget`, `CalculateDiff` | `sync_data` up to the diff, `jobs.py:226-280` |
| `SyncElement` | one call of a handler: `Create`, `Update`, `Delete` of Location, Device, Vlan; `Raise` when an exception leaves it, `Skip` when it returns no model, `ObjectNotCreated` for the exception `sync_data` catches |
| `SyncComplete`, `DeleteGroup` | `sync_complete`, one kind per step |
| `FinishJob` | "Sync complete." and the commit |
| `UserDeletes`, `UserEdits`, `UserAdds` | a user's committed change to rows the transaction has not written |
| `WorkerRestart` | the process is replaced: class attributes start afresh |

**Interfaces and addresses.** `IPFabricInterfaces` makes the models of the
interfaces of a device, the pseudo interface included; `IPFabricLoad` and
`InterfaceSync` use it. `InterfaceSync` is a second state machine, below the
devices of one site: three tables (devices with their primary addresses,
interfaces, addresses), the references between them and what deleting a row does
to the rows that refer to it (`WithoutAddresses`, `WithoutInterfaces`,
`WithoutDevices`). Its job has the steps its handlers need: `StartJob`,
`LoadTarget` (load and diff), `SyncElement` (one call of `CreateDevice`,
`UpdateDevice`, `DeleteDevice`, `CreateInterface`, `UpdateInterface` or
`DeleteInterface`), `SyncComplete`, `DeleteGroup`, `FinishJob`, and four edits
of users. The option `ALLOW_DUPLICATE_IPS` of a job is the setting its worker
has read. `here` is the device the library is at: it visits devices, and the
interfaces of each, in the order described above. `aux_last` remembers the
snapshot of the last job, as long as every job so far has completed.

**Source.** `IPFabricLoad` is `IPFabricDiffSync.load`, a row of a table per
step: `LoadSite`, then for each location of the store, in its order
(`VisitNext`), `LoadVlan` and `LoadDevice`, over four tables that repeat,
contradict and overstep limits. The store it leaves is what `SSoTSync` assumes
of a snapshot (`IsSnapshot`, of `DiffSync`: one model per unique id, under a
location, sites with an id, VLANs with a number), which is how the two compose:
`LoadLeavesSnapshot` proves what the theorems about `SSoTSync` assume.

**Form.** `IPFabricClient` holds the client's snapshots and the menu made of
them; `JobForm` has two processes (the web process and a worker) with a client
each, users who open and submit forms (`OpenForm`, `Submit`), the worker's
`Deserialize`, `ConnectAgain`, `SelectSnapshot`, `Sync`, and IP Fabric, which
changes its listing and its connection (`Change`). A sync that has selected its
snapshot ends either way here; what it does is `SSoTSync`'s.

**Chat.** `ChatCommand`: words of a command (`Type`), menus that stay clickable
for ever (`Click`), `SsotSyncToNautobot`, which asks the next question or makes
the job, and `RunSyncData`.

**Lookup rows.** `Lookups`: tags and custom fields, made by `DatabaseReady` and
again by `tag_object`; manufacturers, device types and roles as `Device.create`
and `Device.update` find and make them. Users delete tags, fields, types and
roles, rename them, change slugs and colours. `get_or_create` looks for all the
columns it is given, and inserts when one of them differs: a tag whose name or
slug was changed (`"torn"`) and a role that was renamed with its slug kept end
the job in an IntegrityError (`TagRefused`, `RoleRefused`).

**Several workers.** `OverlappingJobs` keeps of the handlers what they look for,
write and lock. A handler is several steps, one query each: `FindType`,
`FindRole` and `FindDevice` are `Device.create`, and the rows a step is about to
save are a sequence (`saves`) that `SaveRow` works off. A job sees what is
committed and what it has written. It keeps locked until it ends what it has
written: the rows of sites, manufacturers, device types and the role, which have
unique names and whose second insert waits for the first, and those of devices,
which have none. `Loads`, `DiffFrom` and `Current` are the load, the diff and
the order of `DiffSync`, with the option to load tagged rows only and the site
filter, so that devices move between snapshots and jobs see less than there is.
`beside` remembers the devices a job listed where it did not find them.

`MC*` modules give constants their values. `*Proofs` modules hold theorems.
Operators introduced as `Mutant:` are faulty variants of the operator that
follows them; no action uses them, and they serve to show that each property
can fail.

### What is abstracted, and what is assumed of other software

- A handler is one step. It makes several queries; rows it has written are
  locked, and what other sessions change between two of its queries is left out
  (`OverlappingJobs` has the finer picture for jobs, one query per lock).
- In `SSoTSync`, serial number and role of a device, description of a VLAN and
  the status names (one "Retired" per kind) are left out; `Lookups` has the
  role. Configured status names exist in Nautobot (`create_status` finds them).
- In `InterfaceSync`, description and MTU stand for the other attributes of an
  interface: one that may be empty and one that has a default.
- A device of `OverlappingJobs` has one type; its jobs run in safe delete mode,
  users edit nothing, and the plugin's tags and fields are there. Interfaces,
  addresses and VLANs are left out.
- In `Lookups`, users make no custom field with the name of one of the plugin's,
  and do not narrow the kinds of a field.
- `diffsync` 1.x visits siblings in the order in which they came into the diff:
  those of the source as they were loaded, then those of the target that the
  source lacks. A location is finished before the next one begins.
- `ipfabric`: a blank `snapshot_id` selects the last snapshot, an unknown one
  raises; a refused connection is `ConnectError`, a timeout is not, and
  `jobs.py:151` does not catch it.
- Nautobot: `run_job` reads the arguments through `_get_vars`, records what is
  raised there and later, and wraps the job in a transaction; PostgreSQL is at
  READ COMMITTED and, of jobs that wait for each other in a cycle, aborts one.
- A chat command runs in a process of its own (rq forks), so its job finds no
  cached client.

## Runs

| Run | Instance | Properties |
| --- | --- | --- |
| `Runs.cfg` | `SSoTSync`: 9 databases, 9 snapshots, all 24 options, 2 jobs, no edits; 419,199 states | `TypeOK`, `FlaggedStayUntouched`, `ScopeRespected`, `SourcedRowsSurvive`, `UnsafeRunMirrors`, `UnfilteredRunAddsNoDuplicate`, `RunSettles` |
| `Edits.cfg` | `SSoTSync`: 9 databases, 3 snapshots, 5 options, 2 jobs, an edit or a restart anywhere; 233,554 states | `ReferentialIntegrity`, `SafeRunKeepsRows`, `ScopeRespected`, `SourcedRowsSurvive`, `KeepsPromise` (refinement, safety), `Implements` (with liveness) |
| `Interfaces.cfg` | `InterfaceSync`: 7 databases, 7 snapshots, 4 of 8 options, 2 jobs, 1 edit; 365,658 states | `TypeOK`, `CommittedPrimaryIsOwn`, `SafeRunKeepsInterfaces`, `OnlyTheNewAddress`, `SecondRunSetsPrimary`, `SecondRunSettles`, `Implements` |
| `Load.cfg` | `IPFabricLoad`: up to two rows of VLANs, devices and interfaces, four tables of sites; 75,390 states | `LoadIsSnapshot`, `FirstRowWins`, `LoginInterfaceLoaded` |
| `Form.cfg` | `JobForm`: 3 snapshots, 6 listings, 2 jobs, 2 changes of IP Fabric; 112,966 states | `FormOffersLoaded`, `SyncsChosenSnapshot`, `JobsEnd` |
| `Lookups.cfg` | `Lookups`: 2 devices, 2 vendors, 6 models of 3 slugs, 2 edits; 854,430 states | `TypeOK`, `StampShows`, `CreateNeverRaises`, `CreatedAsListed` |
| `Overlap.cfg` | `OverlappingJobs`: 2 workers, 3 jobs, 2 devices in 2 sites, 2 snapshots, 2 options, with fairness; 54,172 states | `TwinsNeedOverlap`, `TwinsStay`, `NoJobWaitsForEver` |
| `StaleQueue.cfg` | `SSoTSync`, 2 jobs | violates `DeletesOnlyWhatNeedsToBe` |
| `HalfSynced.cfg` | `SSoTSync`, 1 job | violates `SyncCompleteMeansSynced` |
| `MovedDevice.cfg` | `SSoTSync`, 1 job | violates `DeviceFollowsItsSite` |
| `LostAddress.cfg` | `InterfaceSync`, safe delete mode | violates `SafeRunKeepsAddresses` |
| `ChatStatus.cfg` | `ChatCommand`, 3 commands | violates `StatusIsFinal` |

Why the bounds are enough. Two sites are enough for a device to move to a site
visited before or after its own; two host names allow one element to be
processed before another stops the sync; three models give a change with and
without a change of vendor. Two jobs are enough for everything one job can hand
to the next (rows, queue, mode), and the second is the one that
`SecondRunSettles` speaks of. Of interfaces, two and the pseudo interface allow
an address to move from one to another; one address of version 6 is there to be
hidden by one of version 4. In `Load.cfg` rows stand on both sides of every
limit (0, 4094, 4095), and two are enough to repeat or contradict each other.
Two jobs and two changes allow a snapshot to go between form and start while a
client is cached. The three jobs of `Overlap.cfg` are two that overlap, or one
that finds a device where it does not look, and one that comes after; the
history variables `overlap` and `beside` tell them apart. Its jobs visit two
sites in any order and make the types or find them, so that they wait for each
other over every kind of row with a unique name. `Lookups.cfg` has a model with
capitals that is found by no slug, one that is its own slug and is found by the
second device that has it, and one that is the slug of another vendor's model;
two edits are enough to rename a role or a tag and to give its place to another.

`Interfaces.cfg` has half of the options, so that the run ends in time: every two
of safe delete mode, tagged rows only and duplicate addresses occur in every
combination. With all options and two more snapshots it was run once (below).

What the six properties of `Runs.cfg` say of a job compares its rows with the
snapshot and the database it began with, and an edit in between is a legitimate
difference: a user may delete a site the job has still to look up, or restore
what it flags. They are guarded by `Alone`: a job runs and no user has edited
since it began. Without the guard TLC finds `ScopeRespected`,
`SourcedRowsSurvive` and `UnfilteredRunAddsNoDuplicate` violated by one edit.
`Runs.cfg` has no edits at all, so that all options fit; `Edits.cfg` has edits
before, between and during jobs, and checks two of the six again. Where a
property asks for `aux_leftover = {}`, the queue was empty when the job started:
with anything in it the property is false, which is what `StaleQueue.cfg` shows.
`OneRowPer` keeps apart databases in which one name already stands for two rows,
which `MovedDevice.cfg` shows a job can bring about.

`SecondRun*` ask for no edit at all (`Again`), for a user may undo what the first
job did, for one device per name, and for no job that was aborted before. Each
condition was found by TLC or by the proof, and without it there is a
counterexample:

- an address that two interfaces have in the source moves from one to the other
  in every job, and of two devices the one that is synced first is left without
  (`ListedOnce`);
- an aborted job leaves a device in the queue, and a later one whose source has
  the device brings it in order and deletes it at the end (`Remember`);
- the interfaces of a device that is in the source but not tagged when the job
  begins stay in every mode: `delete` looks for a tagged device, and a tagged-only
  job does not load them (the second disjunct of the clause about `delete` in
  `SecondRunSettles`);
- an interface that is really called `pseudo_mgmt` may leave the source without a
  primary interface: the property speaks of the items there are.

`Interfaces.cfg` has a database with two devices of one name and a snapshot with
an address on two interfaces. `SafeRunKeepsInterfaces` speaks of addresses only
where duplicates are allowed: otherwise an address that is found is taken from
the interface that has it, and may be deleted there (`LostAddress.cfg`).

Larger instances were checked too, without change of a verdict: `Edits.cfg` with
two edits (2,628,156 states, without `Implements`); the properties of `Runs.cfg`
with an edit, three snapshots and all options (1,276,052 states), and with three
jobs in a row, nine snapshots and the options of `Edits.cfg` (777,275 states);
three jobs of `InterfaceSync` without edits (793,414 states), and two with an
edit, all 8 options and 9 snapshots (1,134,268 states); the two properties of
`Overlap.cfg` that need no fairness with four snapshots and three options, the
site filter among them (544,925 states), and `NoJobWaitsForEver` with three
workers and three sites, in which jobs wait in rings of three (74,636 states).

Deadlock checking is off where the model stops: after `MaxRuns` or `MaxJobs`
jobs, the last command, or the return of `load`. That a job does not get stuck
before is what `Implements`, `JobsEnd` and `NoJobWaitsForEver` say. It is on in
`Lookups.cfg`.

Fairness. `WF_vars(JobStep)` in `SSoTSync` and `InterfaceSync`: `sync_data` is
straight-line code in one process; a worker that has begun a job takes the next
step unless it is replaced, and being replaced ends the job too.
`WF_vars(WorkerStep)` in `JobForm`: a worker that lives takes the job it was
sent. In `OverlappingJobs`, `WF_vars(\E w : Works(w) \/ Deadlock(w))`: as long
as there is a job that need not wait one goes on, which is less than that each
does, and PostgreSQL looks for cycles when a lock has been waited for long
enough (`deadlock_timeout`). `Abort`, an exception of any other kind, is not
fair, so that no job ends because it must fail some time. Nothing is assumed of
users, of IP Fabric, of restarts, or of a next job being started; `ChatCommand`,
`Lookups` and `IPFabricLoad` have no fairness, and no liveness property.

### What the code does not do

Five runs show a disagreement between the code and its documents or messages;
`PROJECT.json` quotes the lines. The queue of an unfinished job is carried out
by a later one (`StaleQueue`). "Sync complete." follows a diff that was left in
the middle (`HalfSynced`). In safe delete mode, a device that moves to a site
that is visited later becomes two rows (`MovedDevice`). Safe delete mode deletes
addresses (`LostAddress`). The job of the chat command raises before it reads
anything, and stays pending for ever (`ChatStatus`).

Others were met while modelling. The modules follow the code in each, and no run
is spent on them:

- `adapter_nautobot.py:223`: a tagged-only job loads VLANs without the tag, and
  flags or deletes them.
- `diffsync_models.py:203`: a device that "could not be created" stays in the
  transaction, and is committed.
- `nbutils.py:37`: a site that comes back through `create_site` keeps its flag.
- `diffsync_models.py:238`, `:437`: the changed model of a device of the same
  vendor ends the job or is given to nothing; the changed number of a VLAN never
  arrives. Both are differences of every later job.
- `diffsync_models.py:377`: `docs/plugin.md:205` promises a primary address that
  an update of the address alone leaves unset until the next job.
- `diffsync_models.py:366`: an address or description that is withdrawn stays.
- `adapter_nautobot.py:86`: next to a primary address of version 4, one of
  version 6 is never recognised, and is set again (`diffsync_models.py:382`) by
  every job.
- `diffsync_models.py:349`: an interface of a device whose tag was removed ends
  the job.
- `nbutils.py:25` reads `ALLOW_DUPLICATE_ADDRESSES` from the configuration,
  `docs/plugin.md:84` calls it `allow_duplicate_addresses`.
- `adapter_ipfabric.py:123`: a serial number of exactly the maximal length is
  left out.
- `jobs.py:166`: `update` of a cached client raises where a first connection
  that is refused is reported.
- `diffsync_models.py:164`: a device type is looked for by a slug that is the
  model, of any vendor: a listed model that is the slug of another vendor's model
  gets that one's type.
- `nbutils.py:206`: a tag of the plugin's whose name or slug a user has changed
  ends every job that has a row to tag; `nbutils.py:81`: so does a renamed role
  that kept its slug, for every device that is new or has another role.

## Proofs

Each theorem holds for every value of the constants that satisfies the named
assumptions, which say what the program is given and no more:

- names are naturals (queries sort them), and `None` is no name, key or number;
- a snapshot is what `IPFabricDiffSync.load` can produce (`IsSnapshot`, which
  `LoadLeavesSnapshot` proves of `load`);
- a database to start from is one Nautobot could hold: primary keys and the
  names of sites are used once, a VLAN has a number, references lead to rows;
- tables and listings are sequences, a listing repeats nothing;
- in `InterfaceSync`, interfaces of the source are models of devices the
  snapshot lists (`SnapshotsAssumption`);
- bounds are naturals of any size, so nothing depends on two jobs or one edit.

All invariants and action properties of the passing runs are proved. The proofs
about the order of a sync use only what `MayBeNext` (and `Current`, of
`OverlappingJobs`) grants: siblings that both have, or that only the source has,
come in any order.

**`SSoTSyncProofs`**

- `TypeCorrect`, `SafeMode`, `References`: `TypeOK`, `SafeRunKeepsRows` and
  `ReferentialIntegrity` are invariants of `Spec`.
- `Transaction`: `Spec => KeepsPromise`, the refinement of `SyncTransaction`
  without its liveness.
- `RowsInvariant`, and from it `FlaggedStay`, `ScopeIsRespected`,
  `SourcedSurvive`, `NoDuplicateAdded`: `FlaggedStayUntouched`,
  `ScopeRespected`, `SourcedRowsSurvive`, `UnfilteredRunAddsNoDuplicate`.

The first four go through one lemma, `SyncElementHandles`: every handler either
raises, stops the sync, or writes (`Wrote`): rows stay rows, no primary key is
lost, no site is taken away, no row is put where no site is, and a row that is
new has the tag. It is built from a lemma per handler and lemmas about the
helpers (`CreateSiteKeeps`, `SaveKeeps`, `SafeDeletedKeeps`).

`SafeRunKeepsRows` is not inductive. `SafeInv` adds that between jobs nothing is
uncommitted (so that a job starts with all rows there) and that from the load of
the target on the class attribute agrees with the job's option (so that
`sync_complete` skips whatever an earlier job left in the queue).
`ReferentialIntegrity` is inductive with `TypeOK`; its two interesting steps are
`DeleteGroup` and `UserDeletes`, by `RemovalKeepsSites`. The refinement needs
besides that a dry run writes nothing (`DryInv`) and that rows of `db` which are
not committed carry the tag; `FinishJob` is then a `Commit` that keeps the
promise, and every other step of a job is a stutter or an `Abort`.

The other four need to know *which* rows a handler reaches. `Inv` has two parts.
`CoreInv` holds whatever users do: primary keys and the names of sites are used
once (`Fine`), a row bears the number of the job that made it, so that what the
running job has created can be told from what was there, and an element that
creates still has no row of this job. `RowsInv` holds as long as the job is
`Alone`: every model of the store, element of the diff and key of the queue
stands for a row of `base` that is in scope. A handler finds its row by name, by
primary key or by every field; the lemma `ElementReaches` says that whichever
way it does, every other row is as it was (`Kept`, `Reached`). That a store
leaves out no row without a reason (`LoadsAll`) is the one place where an order
matters: the first of several rows of a unique id is minimal, by
well-foundedness of the naturals. The invariant had to be split because most of
`RowsInv` is false after an edit, while the next job starts from `CoreInv`.

**`MirrorProofs`**

- `UnsafeRunsMirror`: `UnsafeRunMirrors`. `MirrorInv` follows two promises
  through the sync: a model of the source has a row or a create is still to come
  (`Comes`); a row is in the source, in the queue, or a delete is still to come
  (`Goes`). In `sync_complete` the kinds that are still queued shrink (`Left`),
  and no site is protected when its turn comes, because its devices and VLANs
  went before it.
- `JobsSettle`: `RunSettles`. `SettleInv` adds the data: a row agrees with its
  model or an update is still to come (`WillAgree`), and in safe delete mode
  what the source has not is flagged or going to be (`WillRetire`). What a
  second diff then finds is computed from the store it would load
  (`NothingRemains`). A lemma per handler gives its `Effect`.

TLC checked `MirrorInv` and `SettleInv` as invariants, with and without edits,
before they were proved; `JobsInv` below likewise.

**`InterfaceSyncProofs`**

- `InterfaceInvariant`, and from it `InterfaceTypes`,
  `CommittedPrimaryIsOwnHolds`, `OnlyTheNewAddressHolds`,
  `SafeRunKeepsInterfacesHolds`.
- `JobIsTransaction`: `Spec => T!SafeSpec`, the refinement of `SyncTransaction`.
- `JobsInvariant`, and from it `SecondRunSetsPrimaryHolds` and
  `SecondRunSettlesHolds`: what two jobs with one snapshot leave.

What a transaction has written is not consistent while it runs: a handler that
deletes an address saves the device it fetched before, and the reference to the
address comes back. So the invariant says of `db` only that a primary address is
the device's own *or gone* (`OwnOrGone`), and `PrimaryIsOwn` follows when the
commit has checked that no reference dangles. `Since` is what a job has made so
far of the committed rows: new rows are tagged (`Marked`), an address it gave is
alone on its interface (`Alone`), in safe delete mode devices and interfaces are
still there (`KeepsRows`), and with duplicates allowed addresses stay in their
place or have a successor (`InPlace`). An earlier form of
`SafeRunKeepsInterfaces` had the clause about addresses for every job; the proof
did not go through, because it is false: an address can move to another
interface, back to the first one, and replace what was there, so that no new
address remains.

The `SecondRun*` relate two jobs, and every handler in between matters.
`JobsInv` is what holds as long as jobs complete and users edit nothing
(`Clean`); nothing is said once a job was aborted. Within a job its part is
`Progress`: whatever the source has is in the database or has an element left
that will write it (`DeviceInSync`, `ItemInSync`, `PrimaryInSync`), whatever the
source has not waits in a queue or has a delete left (`Leaving`), and a queue
holds nothing the source has (`QueueRight`). Between jobs it is `Settled`: an
interface of the last snapshot whose address is the device's login address has
it first. That is what lets the second job set the primary address: the address
is there, so the element that remains changes `primary` alone, and nothing that
comes after it deletes what it has set.

The steps go by what a handler does to the others' rows. `Moved` says that
devices and interfaces keep their names and that those that come are in the
source; `Spares` that an item has what it had. An address is moved or deleted
only by the handler of the item that lists it or has the interface it is on
(`SaveInterfaceSaves`, `WritesSpares`), which is where `ListedOnce` enters.
`ElementProgress` then leaves to a lemma per handler what it does for its own
element (`Own`); the lemmas `DiffHas` and `DiffOnly` say which elements a diff
has, and are used twice: for what the first job starts with (`LoadRight`) and
for what a third would find (`Settles`). The first three counterexamples
above were met in the search for this invariant, and TLC confirmed them.

**`OverlappingJobsProofs`**: `OverlapInvariant`, `TwinsNeedOverlapHolds`,
`TwinsStayHolds`, `TwinsForEver`, for any number of workers and jobs, any
snapshots and options. The invariant `Inv` is about versions of rows, committed,
written and about to be saved: a key has one version per job (`UniqueKeys`), a
version of a device keeps its name (`NamesKept`), no row is locked by two jobs
(`Exclusive`), and a device that is not committed is known to the job that made
it alone (`Owned`). `SoloInv` adds, as long as no two jobs have run at a time,
that a device never listed beside another one of its name has one row, and that
no element creates one the job sees (`Alone`): the load is where `beside` is
needed, for without a misplaced device an element that creates has nothing of
its name to see. `TwinsStay` says of every step that it brings no other version
of a device that stands beside another of its name, where there was none: get
and get_or_create raise. `TwinsForEver` draws the conclusion for all later
states. The locks of the model carry no theorem: that jobs which wait for each
other end is liveness.

**`IPFabricLoadProofs`**: `LoadInvariant`, `LoadLeavesSnapshot`,
`FirstRowMakesModel`, `LoginsAreLoaded`, for tables of any length. `VlanSeen`
and `DeviceSeen` are the rows that have been read for the location they name;
what is in the store is made of the first of them of its unique id
(`FromFirst`), and nothing that was read is missing (`NoneMissing`). The order
in which devices are read, by place of the site and then by row (`Before`), is
total, so that the first row is one.

**`LookupsProofs`**: `TypeCorrect`, `StampsShow`, `NewDevicesAreCreated`,
`NewDevicesAreAsListed`, all properties of `Lookups.cfg`. `TypeOK` of this
module says that references lead to rows and unique names are used once; the
actions to look at are those by which users rename and delete (`RolesOK`,
`CatalogOK`, `DevicesOK`; together `RowsOK`). The invariant behind the last two
is `TypesOK`: every device type has the vendor, the model and the slug of a
device that some inventory lists. A type that refuses to be made is therefore
another model of the same slug, and a type found by a slug that is the model is
that of a listed device: its own, or one whose slug is the model
(`SlugOfAnother`). `CreateNeverRaises` goes by the state in which the handler
ran: what makes a role or a tag refuse, a name or a slug that another has, is
still there when it has raised. `FieldOK` is behind the second: whatever is
stamped by a step is of a kind the field is for when the step ends, since who
makes the field makes it for every kind.

**`JobFormProofs`**: `ChoicesAreSynced` and `MenuIsOffered` prove the two
invariants of `Form.cfg`. The lemmas are about the data: what `loaded_snapshots`
maps its keys to (`LoadedSnapshotsOf`), that the menu made of it has every
snapshot and repeats none but under references (`MenuOf`), and that the client
selects what was chosen (`SelectedIsChosen`). `FormInv` adds that a client is
`None` or lists what IP Fabric had loaded at some time, that the menu on the
screen is the one of the web process's client, and that a job that syncs has a
client of its own.

**`ChatCommandProofs`**: `OptionsAnswered`. The words of every menu say what was
answered to the questions before, whichever conversation it belongs to; so the
words of a complete command are the options the user gave.

Only model-checked:

- liveness (`Implements` with fairness, `JobsEnd`, `NoJobWaitsForEver`), which
  is beyond the proof system;
- the properties of the five runs that violate them.

## Plan

Done: every module named above, and the proofs of all invariants. Left: a finer
`InterfaceSync` in which a handler is several steps, as in `OverlappingJobs`,
so that a user's edit may come between two queries of one handler.

## Not modelled

- `utilities/test_utils.py`, `tasks.py`, `development/`: fixtures, invoke tasks
  and containers, no part of the program at work.
- Formatting: MAC addresses, subnet masks, messages, links, the dashboard and
  the data mappings the job shows.
- `create_status`, which finds the statuses Nautobot comes with.
- Interfaces, addresses and VLANs of overlapping jobs (`OverlappingJobs` leaves
  them out). They too have unique keys, on which jobs may wait.
