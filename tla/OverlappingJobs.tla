-------------------------- MODULE OverlappingJobs ---------------------------
(***************************************************************************)
(* Jobs of several workers at once. Nautobot runs each in a transaction of *)
(* its own, READ COMMITTED on PostgreSQL: a query of a job sees what other *)
(* jobs have committed by then and what the job has written itself. A row  *)
(* that a job inserts or saves stays locked until the job ends; another    *)
(* job that saves it, or inserts a row with its unique key, waits. Sites,  *)
(* manufacturers, device types and roles have unique names; nothing keeps  *)
(* two devices from having one name.                                       *)
(*                                                                         *)
(* Of the handlers (diffsync_models.py, nbutils.py) what they look for and *)
(* what they write is kept, one query per step. Jobs run in safe mode, and *)
(* users edit nothing: the plugin's tags and fields are there. A device    *)
(* has one type; its data stand for its serial number. SSoTSync has whole  *)
(* handlers and all options, for one worker. Interfaces, addresses and     *)
(* VLANs are left out.                                                     *)
(***************************************************************************)
EXTENDS Integers, Sequences

CONSTANTS
  None,
  Workers,
  Devices, Sites,    \* names, as ranks in the order of Nautobot's queries
  TypeOf, MakerOf,   \* device type of each device, manufacturer of each type
  Data,              \* serial numbers
  Snapshots,         \* what IP Fabric may list: sites, and devices in them
  Options,           \* the options users start jobs with
  InitialRows,       \* the tables there may be at first, tagged by no sync
  MaxJobs            \* bound on the jobs that are started

(* The rows: sites, manufacturers, types and the role by their names,      *)
(* devices by their primary keys. A site or a device that safe mode has    *)
(* flagged has another status than "Active".                               *)
Plain(kind, x) == [key |-> <<kind, x>>, name |-> None, site |-> None, data |-> None,
                   flagged |-> FALSE]
SiteRow(s, flagged) == [Plain("site", s) EXCEPT !.site = s, !.flagged = flagged]
Device(id, n, s, x) == [Plain("device", id) EXCEPT !.name = n, !.site = s, !.data = x]

Types     == {TypeOf[n] : n \in Devices}
DeviceRow == [key: {"device"} \X Int, name: Devices, site: Sites, data: Data, flagged: BOOLEAN]
OtherRow  == {SiteRow(s, f) : s \in Sites, f \in BOOLEAN}
               \cup {Plain("type", t) : t \in Types} \cup {Plain("role", None)}
               \cup {Plain("maker", MakerOf[t]) : t \in Types}
Item      == {x \in [name: Devices \cup {None}, site: Sites, data: Data \cup {None}] :
                x.name = None <=> x.data = None}

ASSUME NamesAssumption == /\ Devices \subseteq Nat /\ Sites \subseteq Nat
                          /\ None \notin Devices \cup Sites \cup Data
ASSUME OptionsAssumption ==
  Options \subseteq [tagged_only: BOOLEAN, site_filter: Sites \cup {None}]
(* IP Fabric has host names once. Nautobot has them once to begin with.    *)
ASSUME SnapshotsAssumption ==
  \A S \in Snapshots : /\ S \subseteq Item
                       /\ \A x, y \in S : x.name = y.name /\ x.name # None => x = y
ASSUME RowsAssumption ==
  \A R \in InitialRows :
    /\ R \subseteq DeviceRow \cup OtherRow
    /\ \A d \in R \cap DeviceRow : d.key[2] <= 0
    /\ \A r, s \in R : r.key = s.key \/ (r.name = s.name /\ r.name # None) => r = s

VARIABLES
  rows,       \* the committed rows
  tagged,     \* the keys of those tagged ssot-synced-from-ipfabric
  next_id,    \* primary keys of devices
  jobs,       \* per worker: the job that runs, or Idle
  started,    \* number of jobs that were started
  overlap,    \* history: two jobs have run at a time
  beside      \* history: devices listed where their job did not find them
vars == <<rows, tagged, next_id, jobs, started, overlap, beside>>

(* A job: the sites its snapshot lists, the elements of its diff still to  *)
(* be synced, the site and the device it is at, the rows its handler saves *)
(* next, and what it has written and tagged.                               *)
Idle == [pc |-> "idle", listed |-> {}, todo |-> {}, here |-> None, at |-> None,
         saves |-> <<>>, wrote |-> {}, tagged |-> {}]
Running(w) == jobs[w].pc # "idle"

Init ==
  /\ rows \in InitialRows /\ tagged = {} /\ jobs = [w \in Workers |-> Idle]
  /\ next_id = 1 /\ started = 0 /\ overlap = FALSE /\ beside = {}

-----------------------------------------------------------------------------
(* What a job sees and what it waits for                                   *)

Seen(w)     == jobs[w].wrote \cup {r \in rows : \A v \in jobs[w].wrote : v.key # r.key}
Tagged(w)   == tagged \cup jobs[w].tagged
Exists(w, r) == \E v \in Seen(w) : v.key = r.key
Named(w, n) == {d \in Seen(w) : d.name = n}
Single(R)   == \A r, s \in R : r = s

Locks(w) == {r.key : r \in jobs[w].wrote}
WaitsFor(w, u) == u # w /\ jobs[w].saves # <<>> /\ Head(jobs[w].saves).key \in Locks(u)

-----------------------------------------------------------------------------
(* The diff, as in DiffSync                                                *)

(* The rows that NautobotDiffSync loads. Of devices of one name it keeps   *)
(* one, of the first site.                                                 *)
InScope(w, o) ==
  LET asked == {r \in Seen(w) : /\ o.tagged_only => r.key \in Tagged(w)
                                /\ o.site_filter \in {None, r.site}}
  IN  {r \in asked : r.site \in {s.site : s \in {s \in asked : s.key[1] = "site"}}}
Loads(w, o) ==
  {L \in SUBSET InScope(w, o) :
     \A r \in InScope(w, o) :
       /\ r.name = None => r \in L
       /\ \E q \in L : q.name = r.name /\ (r.name # None => q.site <= r.site)
       /\ \A q \in L : q.name = r.name /\ r \in L => q = r \/ r.name = None}

Element(x, action, attrs) ==
  [action |-> action, name |-> x.name, site |-> x.site, data |-> x.data, attrs |-> attrs]
Changed(x, y) == (IF x.data # y.data THEN {"data"} ELSE {})
                   \cup (IF y.flagged THEN {"flagged"} ELSE {})
SamePlace(x, y) == x.name = y.name /\ x.site = y.site

(* Mutant: a device whose attributes differ is taken for a new one.        *)
DiffByData(S, L) ==
  {Element(x, "create", {}) : x \in {x \in S : \A y \in L : ~ SamePlace(x, y) \/ x.data # y.data}}

DiffFrom(S, L) ==
  {Element(x, "create", {}) : x \in {x \in S : \A y \in L : ~ SamePlace(x, y)}}
    \cup {Element(y, "delete", {}) : y \in {y \in L : \A x \in S : ~ SamePlace(x, y)}}
    \cup {e \in {Element(p[1], "update", Changed(p[1], p[2])) :
                   p \in {p \in S \X L : SamePlace(p[1], p[2])}} : e.attrs # {}}

(* A site before its devices; what IP Fabric lists, in any order, before   *)
(* what it does not, in the order of Nautobot's queries.                   *)
IsSite(e) == e.name = None
Precedes(e, f) ==
  /\ ~ IsSite(f)
  /\ IsSite(e) \/ (f.action = "delete" /\ (e.action = "delete" => e.name < f.name))
SitePrecedes(s, t, listed) == t \notin listed /\ (s \in listed \/ s < t)

(* The elements one of which is synced next.                               *)
Current(w) ==
  {e \in jobs[w].todo :
     \A f \in jobs[w].todo :
       IF f.site = e.site THEN ~ Precedes(f, e)
       ELSE /\ jobs[w].here # f.site
            /\ jobs[w].here = e.site \/ ~ SitePrecedes(f.site, e.site, jobs[w].listed)}

-----------------------------------------------------------------------------
(* A job                                                                   *)

StartJob(w) ==
  /\ ~ Running(w) /\ started < MaxJobs /\ started' = started + 1
  /\ jobs' = [jobs EXCEPT ![w].pc = "load"]
  /\ overlap' = (overlap \/ \E u \in Workers \ {w} : Running(u))
  /\ UNCHANGED <<rows, tagged, next_id, beside>>

(* Listed devices that are in another site, or left out by the options.    *)
Misplaced(w, S, o) ==
  {n \in Devices : \E x \in S, d \in Named(w, n) :
                     x.name = n /\ (x.site # d.site \/ d \notin InScope(w, o))}

Load(w) ==
  /\ jobs[w].pc = "load"
  /\ \E S \in Snapshots, o \in Options : \E L \in Loads(w, o) :
       /\ jobs' = [jobs EXCEPT ![w].pc = "sync", ![w].todo = DiffFrom(S, L),
                               ![w].listed = {x.site : x \in {x \in S : IsSite(x)}}]
       /\ beside' = beside \cup Misplaced(w, S, o)
  /\ UNCHANGED <<rows, tagged, next_id, started, overlap>>

(* A handler begins with an element; it saves rows, one after the other.   *)
Ready(w, pc)     == jobs[w].pc = pc /\ jobs[w].saves = <<>>
Begun(j, e)      == [j EXCEPT !.todo = @ \ {e}, !.here = e.site]
Saving(j, saves) == [j EXCEPT !.saves = saves]
Goes(w, j)       == jobs' = [jobs EXCEPT ![w] = j]
                      /\ UNCHANGED <<rows, tagged, started, overlap, beside>>

(* validated_save, as soon as no other job has the row locked.             *)
SaveRow(w) ==
  /\ jobs[w].saves # <<>> /\ \A u \in Workers : ~ WaitsFor(w, u)
  /\ LET r == Head(jobs[w].saves)
     IN  Goes(w, [jobs[w] EXCEPT !.saves = Tail(@), !.tagged = @ \cup {r.key},
                                 !.wrote = {v \in @ : v.key # r.key} \cup {r}])
  /\ UNCHANGED next_id

(* create_site, and Location.update of a site that was flagged.            *)
SaveSite(w) ==
  /\ Ready(w, "sync")
  /\ \E e \in Current(w) :
       /\ IsSite(e) /\ e.action # "delete"
       /\ Goes(w, Saving(Begun(jobs[w], e), <<SiteRow(e.site, FALSE)>>))
  /\ UNCHANGED next_id

(* safe_delete saves what is not flagged yet.                              *)
DeleteSite(w) ==
  /\ Ready(w, "sync")
  /\ \E e \in Current(w) :
       /\ IsSite(e) /\ e.action = "delete"
       /\ Goes(w, Saving(Begun(jobs[w], e),
                         IF SiteRow(e.site, TRUE) \in Seen(w) THEN <<>>
                         ELSE <<SiteRow(e.site, TRUE)>>))
  /\ UNCHANGED next_id

(* Device.create: the type is looked for; create_device_type_object makes  *)
(* it, and the manufacturer before it.                                     *)
FindType(w) ==
  /\ Ready(w, "sync")
  /\ \E e \in Current(w) :
       LET type  == Plain("type", TypeOf[e.name])
           maker == Plain("maker", MakerOf[TypeOf[e.name]])
       IN  /\ ~ IsSite(e) /\ e.action = "create"
           /\ Goes(w, [Saving(Begun(jobs[w], e), IF Exists(w, type) THEN <<>> ELSE <<maker, type>>)
                         EXCEPT !.pc = "role", !.at = e])
  /\ UNCHANGED next_id

(* Then the role, which create_device_role_object makes.                   *)
FindRole(w) ==
  /\ Ready(w, "role")
  /\ LET role == Plain("role", None)
     IN  Goes(w, [Saving(jobs[w], IF Exists(w, role) THEN <<>> ELSE <<role>>)
                    EXCEPT !.pc = "device"])
  /\ UNCHANGED next_id

(* Then get_or_create. The site is there: it was listed, and synced before *)
(* the device. Next to a device of its name and site the device is tagged, *)
(* but validated_save refuses it.                                          *)
Matching(w, e) ==
  {d \in Named(w, e.name) : d.site = e.site /\ d.data = e.data /\ ~ d.flagged}
FindDevice(w) ==
  /\ Ready(w, "device") /\ Single(Matching(w, jobs[w].at))
  /\ LET e     == jobs[w].at
         found == Matching(w, e)
         new   == Device(next_id, e.name, e.site, e.data)
     IN  /\ \E d \in found \cup (IF found = {} THEN {new} ELSE {}) :
              LET clashes == \E c \in Named(w, e.name) \ {d} : c.site = d.site
              IN  Goes(w, [Saving(jobs[w], IF d \in found /\ clashes THEN <<>> ELSE <<d>>)
                             EXCEPT !.pc = "sync", !.at = None, !.tagged = @ \cup {d.key}])
         /\ next_id' = IF found = {} THEN next_id + 1 ELSE next_id

(* Mutant: filter(...).first() instead of get.                             *)
GetFirst(w, e) == Named(w, e.name)
(* Device.update and Device.delete: get, then save the row that was found, *)
(* which another job may have saved by then. No device is ever gone.       *)
Get(w, e) == {d \in Named(w, e.name) : Single(Named(w, e.name))}

UpdateDevice(w) ==
  /\ Ready(w, "sync")
  /\ \E e \in Current(w) : \E d \in Get(w, e) :
       /\ ~ IsSite(e) /\ e.action = "update"
       /\ Goes(w, Saving(Begun(jobs[w], e),
            <<[d EXCEPT !.data    = IF "data" \in e.attrs THEN e.data ELSE @,
                        !.flagged = IF "flagged" \in e.attrs THEN FALSE ELSE @]>>))
  /\ UNCHANGED next_id

DeleteDevice(w) ==
  /\ Ready(w, "sync")
  /\ \E e \in Current(w) : \E d \in Get(w, e) :
       /\ ~ IsSite(e) /\ e.action = "delete"
       /\ Goes(w, Saving(Begun(jobs[w], e),
                         IF d.flagged THEN <<>> ELSE <<[d EXCEPT !.flagged = TRUE]>>))
  /\ UNCHANGED next_id

(* Mutant: a job that raises leaves its transaction open.                  *)
AbortOpen(w) == Running(w) /\ Goes(w, [Idle EXCEPT !.wrote = jobs[w].wrote]) /\ UNCHANGED next_id
(* Any exception.                                                          *)
Abort(w) == Running(w) /\ Goes(w, Idle) /\ UNCHANGED next_id

(* get and get_or_create that find several rows.                           *)
MultipleObjectsReturned(w) ==
  /\ \/ /\ Ready(w, "sync")
        /\ \E e \in Current(w) : /\ ~ IsSite(e) /\ e.action # "create"
                                 /\ ~ Single(Named(w, e.name))
     \/ Ready(w, "device") /\ ~ Single(Matching(w, jobs[w].at))
  /\ Abort(w)

(* The database aborts one of several jobs that wait for each other.       *)
Deadlock(w) ==
  /\ \E C \in SUBSET Workers :
       w \in C /\ \A u \in C : \E v \in C, x \in C : WaitsFor(u, v) /\ WaitsFor(x, u)
  /\ Abort(w)

Commit(w) ==
  /\ Ready(w, "sync") /\ jobs[w].todo = {}
  /\ rows' = Seen(w) /\ tagged' = Tagged(w)
  /\ jobs' = [jobs EXCEPT ![w] = Idle]
  /\ UNCHANGED <<next_id, started, overlap, beside>>

Works(w) == \/ Load(w) \/ SaveRow(w) \/ SaveSite(w) \/ DeleteSite(w) \/ FindType(w) \/ FindRole(w)
            \/ FindDevice(w) \/ UpdateDevice(w) \/ DeleteDevice(w) \/ MultipleObjectsReturned(w)
            \/ Commit(w)
Next == \E w \in Workers : StartJob(w) \/ Works(w) \/ Deadlock(w) \/ Abort(w)
Spec == Init /\ [][Next]_vars

(* As long as a job need not wait, one goes on; the database finds cycles. *)
FairSpec == Spec /\ WF_vars(\E w \in Workers : Works(w) \/ Deadlock(w))

-----------------------------------------------------------------------------
(* Properties                                                              *)

Twins(n) == \E d, e \in rows : d.name = n /\ e.name = n /\ d # e

(* Two devices of one name are made in two ways only: by jobs that run at  *)
(* a time, or by a job that lists the device where it did not find the one *)
(* there was, in another site or outside what the options made it load. By *)
(* jobs one after another never otherwise, though attributes differ from   *)
(* one snapshot to the next, devices come and go, and jobs fail.           *)
TwinsNeedOverlap == \A n \in Devices : Twins(n) => overlap \/ n \in beside

(* Two devices of one name are there to stay: once no job that runs has    *)
(* another version of them, none ever does. A job that would update or     *)
(* delete one of them fails, so the rows that Device.create, update and    *)
(* delete write stay as they are, whatever IP Fabric lists and whatever    *)
(* the options. (The handlers of interfaces still save such a device, with *)
(* its primary address: diffsync_models.py:317, 382.)                      *)
SavesOf(j)  == {j.saves[i] : i \in 1..Len(j.saves)}
Versions(w) == jobs[w].wrote \cup SavesOf(jobs[w])
LeftAlone(w, n) == \A v \in Versions(w), r \in rows : r.name = n /\ v.key = r.key => v = r
TwinsAlone(n) == Twins(n) /\ \A w \in Workers : LeftAlone(w, n)
TwinsStay ==
  [][\A n \in Devices : TwinsAlone(n) => /\ TwinsAlone(n)'
                                         /\ \A r \in rows : r.name = n => r \in rows']_vars

(* Jobs wait for the rows of sites, manufacturers, types, roles and        *)
(* devices that others have saved, and may wait for each other. Every job  *)
(* still ends: it commits, or it is one the database aborts, or it raises. *)
NoJobWaitsForEver == \A w \in Workers : Running(w) ~> ~ Running(w)
=============================================================================
