------------------------------ MODULE DiffSync ------------------------------
(***************************************************************************)
(* The two adapters' stores and the diff between them.                     *)
(*                                                                         *)
(* A store is a set of DiffSync models. The source store is what           *)
(* IPFabricDiffSync.load leaves; the target store is what                  *)
(* NautobotDiffSync.load reads from the rows of Nautobot.tla. The diff and *)
(* the order in which it is visited belong to the diffsync library, which  *)
(* is external: diffsync 1.8, a tree with locations at its top and devices *)
(* before VLANs under each of them.                                        *)
(***************************************************************************)
EXTENDS Nautobot

(* A model of the source store. Its status is always "Active".             *)
Item == {x \in [kind: Kinds, name: Names, site: Sites, data: Data] : Located(x)}

(* A model of the target store; pk is the row it was read from, None for a *)
(* model that this run created.                                            *)
Model == {m \in [kind: Kinds, name: Names, site: Sites, data: Data, status: Statuses,
                 pk: PkType \cup {None}] : Located(m)}

Attrs   == {"site_id", "model", "vendor", "vid", "status"}
Actions == {"create", "update", "delete"}
Element == {e \in [kind: Kinds, name: Names, site: Sites, data: Data,
                   action: Actions, attrs: SUBSET Attrs] : Located(e)}

(* get_unique_id: a device is identified by its name alone, whatever the   *)
(* location it hangs under; a VLAN by its name and its site.               *)
Uid(m) == IF m.kind = "vlan" THEN <<m.kind, m.name, m.site>> ELSE <<m.kind, m.name>>
Stored(S, m) == \E x \in S : Uid(x) = Uid(m)

(* IPFabricDiffSync keeps one model per unique id, and loads the children  *)
(* of the locations it has loaded, which have an id (all of this is        *)
(* checked in IPFabricLoad).                                               *)
IsSnapshot(S) == /\ S \subseteq Item
                 /\ \A x, y \in S : Uid(x) = Uid(y) => x = y
                 /\ \A x \in S : <<"location", x.site, x.site>> \in Keys(S)
                 /\ Numbered(S) /\ \A x \in S : x.kind = "location" => x.data # None

-----------------------------------------------------------------------------
(* NautobotDiffSync.load                                                   *)

(* Mutant: the tag takes the place of the name of the site filter.         *)
GetTaggedSite(R, tagged_only, site_filter) ==
  {s \in R : /\ s.kind = "location"
             /\ IF tagged_only THEN s.ssot ELSE site_filter \in {None, s.name}}

(* get_initial_site: the sites the options of the job select.              *)
GetInitialSite(R, tagged_only, site_filter) ==
  {s \in R : /\ s.kind = "location"
             /\ tagged_only => s.ssot
             /\ site_filter # None => s.name = site_filter}

(* Mutant: VLANs are loaded by their tag, whatever the options say.        *)
InTaggedScope(R, tagged_only, site_filter) ==
  LET sites == GetInitialSite(R, tagged_only, site_filter)
  IN  sites \cup {r \in R : /\ \E s \in sites : s.name = r.site
                            /\ \/ r.kind = "device" /\ (tagged_only => r.ssot)
                               \/ r.kind = "vlan" /\ r.ssot}

(* load_data: the devices of those sites, tagged ones only when asked, and *)
(* all of their VLANs: the query for VLANs looks at no tag.                *)
InScope(R, tagged_only, site_filter) ==
  LET sites == GetInitialSite(R, tagged_only, site_filter)
  IN  sites \cup {r \in R : /\ \E s \in sites : s.name = r.site
                            /\ \/ r.kind = "device" /\ (tagged_only => r.ssot)
                               \/ r.kind = "vlan"}

(* Rows come by site, VLANs of a site by vid; devices of one name in one   *)
(* site come in no particular order.                                       *)
Earlier(q, r) == q.site < r.site \/ (q.kind = "vlan" /\ q.site = r.site /\ q.data < r.data)

(* load_device, load_vlans: a second row with the unique id of one already *)
(* in the store is skipped as a duplicate.                                 *)
Loads(R, tagged_only, site_filter) ==
  LET scope == InScope(R, tagged_only, site_filter)
      first == {r \in scope : \A q \in scope : Uid(q) = Uid(r) => ~ Earlier(q, r)}
  IN  {L \in SUBSET first : /\ \A r \in first : \E q \in L : Uid(q) = Uid(r)
                            /\ \A q, r \in L : Uid(q) = Uid(r) => q = r}

ToModel(r) == [kind |-> r.kind, name |-> r.name, site |-> r.site, data |-> r.data,
               status |-> r.status, pk |-> Pk(r)]

-----------------------------------------------------------------------------
(* The diff (diffsync library)                                             *)

(* The attributes in which a model of the source differs from the model of *)
(* the target that stands at the same place of the tree.                   *)
Changed(x, y) ==
  LET data == CASE x.kind = "location" -> {"site_id"}
                [] x.kind = "device"   -> {"model"}
                [] x.kind = "vlan"     -> {"vid"}
  IN  (IF x.data # y.data THEN data ELSE {})
        \cup (IF x.kind = "device" /\ Vendor[x.data] # Vendor[y.data] THEN {"vendor"} ELSE {})
        \cup (IF y.status # "Active" THEN {"status"} ELSE {})

ToElement(x, action, attrs) ==
  [kind |-> x.kind, name |-> x.name, site |-> x.site, data |-> x.data,
   action |-> action, attrs |-> attrs]

(* dest.diff_from(source). Models are matched by their place in the tree:  *)
(* a device that hangs under another location is a delete and a create.    *)
DiffFrom(src, dst) ==
  {ToElement(x, "create", {}) : x \in {x \in src : Key(x) \notin Keys(dst)}}
    \cup {ToElement(y, "delete", {}) : y \in {y \in dst : Key(y) \notin Keys(src)}}
    \cup {e \in {ToElement(p[1], "update", Changed(p[1], p[2])) :
                   p \in {p \in src \X dst : Key(p[1]) = Key(p[2])}} : e.attrs # {}}

(* The order in which DiffSyncSyncer visits the elements. Siblings come as *)
(* they were loaded: what the source has in the order of the tables of IP  *)
(* Fabric, which is any order; after it what only the target has, in the   *)
(* order of Nautobot's queries, sites and devices by name, VLANs by vid.   *)
KindRank(k) == CASE k = "location" -> 0 [] k = "device" -> 1 [] k = "vlan" -> 2
LoadedBefore(e, f) == IF e.kind = "vlan" THEN e.data < f.data ELSE e.name < f.name
Precedes(e, f) ==
  \/ KindRank(e.kind) < KindRank(f.kind)
  \/ e.kind = f.kind /\ f.action = "delete" /\ (e.action = "delete" => LoadedBefore(e, f))

HasSite(src, s) == \E x \in src : x.kind = "location" /\ x.name = s
SitePrecedes(s, t, src) == ~ HasSite(src, t) /\ (HasSite(src, s) \/ s < t)

(* e may be the next of D: of the site that is being visited, here, or of  *)
(* another one when none is.                                               *)
MayBeNext(e, D, here, src) ==
  \A f \in D : IF f.site = e.site THEN ~ Precedes(f, e)
               ELSE here # f.site /\ (here = e.site \/ ~ SitePrecedes(f.site, e.site, src))
=============================================================================
