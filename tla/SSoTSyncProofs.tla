--------------------------- MODULE SSoTSyncProofs ---------------------------
(***************************************************************************)
(* Theorems about the sync job, for every set of names, snapshots,         *)
(* options, databases and every number of jobs and of edits. First what    *)
(* holds whatever users do; then which rows the handlers reach in a job    *)
(* that no user has edited under, whose lookups go by name, by primary key *)
(* or by every field. MirrorProofs goes on to what such a job leaves.      *)
(***************************************************************************)
EXTENDS SSoTSync, WellFoundedInduction, TLAPS

-----------------------------------------------------------------------------
(* Lemmas about the rows (Nautobot) and the diff (DiffSync)                *)

(* A row keeps its type and its primary key when it is tagged, flagged or  *)
(* updated by a handler, and has the tag after that.                       *)
LEMMA TagObjectKeeps ==
  ASSUME NEW r \in Row
  PROVE  TagObject(r) \in Row /\ Pk(TagObject(r)) = Pk(r) /\ TagObject(r).ssot
BY DEF Row, TagObject, Pk, Located

LEMMA SafeDeletedKeeps ==
  ASSUME NEW r \in Row
  PROVE  /\ SafeDeleted(r) \in Row /\ Pk(SafeDeleted(r)) = Pk(r)
         /\ SafeDeleted(r) = r \/ SafeDeleted(r).ssot
BY DEF Row, SafeDeleted, IsFlagged, TagObject, Pk, Statuses, Located

LEMMA UpdatedKeeps ==
  ASSUME NEW r \in Row, NEW e \in Element
  PROVE  Updated(r, e) \in Row /\ Pk(Updated(r, e)) = Pk(r) /\ Updated(r, e).ssot
BY DEF Row, Updated, TagObject, Pk, Statuses, Located, Element

(* A new row is a row, under the primary key it is created with.           *)
LEMMA NewRowIsRow ==
  ASSUME NEW e \in Element, NEW b \in Int
  PROVE  /\ NewRow(e.kind, e.name, e.site, e.data, b) \in Row
         /\ Pk(NewRow(e.kind, e.name, e.site, e.data, b)) =
              [kind |-> e.kind, name |-> e.name, site |-> e.site, born |-> b]
BY DEF Row, NewRow, Pk, Statuses, Located, Element

LEMMA PkIsPk == ASSUME NEW r \in Row PROVE Pk(r) \in PkType
BY DEF Row, Pk, PkType

LEMMA PksOfRows == ASSUME NEW R \in SUBSET Row PROVE Pks(R) \subseteq PkType
BY PkIsPk DEF Pks

(* Where no primary key is lost, no site is.                               *)
LEMMA SitesStay ==
  ASSUME NEW R, NEW N, Pks(R) \subseteq Pks(N), NEW s, SiteExists(R, s)
  PROVE  SiteExists(N, s)
<1>1. PICK r \in R : r.kind = "location" /\ r.name = s
  BY DEF SiteExists, Named
<1>2. PICK q \in N : Pk(q) = Pk(r)
  BY DEF Pks
<1> QED BY <1>1, <1>2 DEF SiteExists, Named, Pk

(* Saving a row over itself, or a new row in a site that is there, keeps   *)
(* the other rows, every primary key and every site.                       *)
LEMMA SaveKeeps ==
  ASSUME NEW R \in SUBSET Row, NEW r \in Row, NEW q \in Row, Pk(q) = Pk(r),
         r \in R \/ SiteExists(R, r.site)
  PROVE  LET N == (R \ {r}) \cup {q}
         IN  N \subseteq Row /\ Pks(R) \subseteq Pks(N) /\ (HasSites(R) => HasSites(N))
<1> DEFINE N == (R \ {r}) \cup {q}
<1>1. N \subseteq Row
  OBVIOUS
<1>2. Pks(R) \subseteq Pks(N)
  BY DEF Pks
<1>3. ASSUME HasSites(R), NEW n \in N
      PROVE  SiteExists(N, n.site)
  <2>1. SiteExists(R, n.site)
    BY <1>3 DEF HasSites, Pk
  <2> QED BY <2>1, <1>2, SitesStay
<1> QED BY <1>1, <1>2, <1>3 DEF HasSites

(* create_site returns rows, forgets no primary key and leaves the site    *)
(* there.                                                                  *)
LEMMA CreateSiteKeeps ==
  ASSUME NEW R \in SUBSET Row, NEW s \in Sites, NEW id \in Data, NEW b \in Int
  PROVE  /\ CreateSite(R, s, id, b) \subseteq Row
         /\ Pks(R) \subseteq Pks(CreateSite(R, s, id, b))
         /\ SiteExists(CreateSite(R, s, id, b), s)
         /\ \A r \in CreateSite(R, s, id, b) \ R : r.ssot
         /\ HasSites(R) => HasSites(CreateSite(R, s, id, b))
<1> DEFINE activate(r) == [TagObject(r) EXCEPT !.status = "Active",
                                               !.data = IF id = None THEN @ ELSE id]
           new   == IF SiteExists(R, s) THEN {} ELSE {NewRow("location", s, s, None, b)}
           sites == Named(R, "location", s) \cup new
<1>1. CreateSite(R, s, id, b) = (R \ Named(R, "location", s)) \cup {activate(r) : r \in sites}
  BY DEF CreateSite
<1>2. NewRow("location", s, s, None, b) \in Row
  BY DEF NewRow, Row, Located, Kinds, Names, Data, Statuses
<1>3. sites \subseteq Row
  BY <1>2 DEF Named
<1>4. ASSUME NEW r \in Row
      PROVE  activate(r) \in Row /\ Pk(activate(r)) = Pk(r)
                /\ activate(r).kind = r.kind /\ activate(r).name = r.name /\ activate(r).ssot
  BY DEF Row, TagObject, Pk, Statuses, Located
<1>5. CreateSite(R, s, id, b) \subseteq Row
  BY <1>1, <1>3, <1>4
<1>6. Pks(R) \subseteq Pks(CreateSite(R, s, id, b))
  <2> SUFFICES ASSUME NEW r \in R PROVE \E q \in CreateSite(R, s, id, b) : Pk(q) = Pk(r)
    BY DEF Pks
  <2>1. CASE r \in Named(R, "location", s)
    BY <2>1, <1>1, <1>4 DEF Named
  <2>2. CASE r \notin Named(R, "location", s)
    BY <2>2, <1>1
  <2> QED BY <2>1, <2>2
<1>7. \E r \in sites : r.kind = "location" /\ r.name = s
  <2>1. CASE SiteExists(R, s)
    BY <2>1 DEF SiteExists, Named
  <2>2. CASE ~ SiteExists(R, s)
    <3>1. NewRow("location", s, s, None, b) \in sites
      BY <2>2
    <3> QED BY <3>1 DEF NewRow
  <2> QED BY <2>1, <2>2
<1>8. SiteExists(CreateSite(R, s, id, b), s)
  <2>1. PICK r \in sites : r.kind = "location" /\ r.name = s
    BY <1>7
  <2>2. activate(r) \in Named(CreateSite(R, s, id, b), "location", s)
    BY <2>1, <1>1, <1>3, <1>4 DEF Named
  <2> QED BY <2>2 DEF SiteExists
<1>9. ASSUME HasSites(R), NEW n \in CreateSite(R, s, id, b)
      PROVE  SiteExists(CreateSite(R, s, id, b), n.site)
  <2>1. CASE n \in R
    BY <2>1, <1>6, <1>9, SitesStay DEF HasSites
  <2>2. CASE n \notin R
    <3>1. PICK r \in sites : n = activate(r)
      BY <2>2, <1>1
    <3>2. n.kind = "location" /\ n.name = s /\ n \in Row
      BY <3>1, <1>3, <1>4 DEF Named, NewRow
    <3> QED BY <3>2, <1>8 DEF Row, Located
  <2> QED BY <2>1, <2>2
<1>10. \A r \in CreateSite(R, s, id, b) \ R : r.ssot
  BY <1>1, <1>3, <1>4
<1> QED BY <1>5, <1>6, <1>8, <1>9, <1>10 DEF HasSites

(* What load_data reads are rows of the tables.                            *)
LEMMA LoadsAreRows ==
  ASSUME NEW R, NEW t, NEW f, NEW L \in Loads(R, t, f)
  PROVE  L \subseteq R
BY DEF Loads, InScope, GetInitialSite

LEMMA ToModelIsModel == ASSUME NEW r \in Row PROVE ToModel(r) \in Model
BY PkIsPk DEF Row, ToModel, Model, Located

LEMMA DiffFromIsElements ==
  ASSUME NEW S \in SUBSET Item, NEW M \in SUBSET Model
  PROVE  DiffFrom(S, M) \subseteq Element
<1>1. ASSUME NEW x \in S, NEW attrs \in SUBSET Attrs, NEW a \in Actions
      PROVE  ToElement(x, a, attrs) \in Element
  BY DEF ToElement, Element, Item, Located
<1>2. ASSUME NEW y \in M
      PROVE  ToElement(y, "delete", {}) \in Element
  BY DEF ToElement, Element, Model, Located, Actions
<1>3. ASSUME NEW x \in S, NEW y \in M
      PROVE  Changed(x, y) \subseteq Attrs
  BY DEF Changed, Attrs, Item, Kinds
<1>4. ASSUME NEW e \in DiffFrom(S, M)
      PROVE  e \in Element
  <2>1. CASE \E x \in S : e = ToElement(x, "create", {})
    BY <2>1, <1>1 DEF Actions
  <2>2. CASE \E y \in M : e = ToElement(y, "delete", {})
    BY <2>2, <1>2
  <2>3. CASE \E p \in S \X M : e = ToElement(p[1], "update", Changed(p[1], p[2]))
    <3>1. PICK x \in S, y \in M : e = ToElement(x, "update", Changed(x, y))
      BY <2>3
    <3> QED BY <3>1, <1>1, <1>3 DEF Actions
  <2> QED BY <1>4, <2>1, <2>2, <2>3 DEF DiffFrom
<1> QED BY <1>4

-----------------------------------------------------------------------------
(* What a handler does                                                     *)

(* A handler that neither raises nor stops the sync writes rows, all of    *)
(* them tagged, forgets no primary key, takes no site away and puts        *)
(* nothing where no site is.                                               *)
Wrote ==
  /\ db' \subseteq Row /\ Pks(db) \subseteq Pks(db') /\ (HasSites(db) => HasSites(db'))
  /\ \A r \in db' \ db : r.ssot
  /\ stamped' \subseteq PkType /\ objects_to_delete' \subseteq PkType
  /\ dst' \subseteq Model /\ diff' \subseteq diff /\ here' \in Sites \cup {None} /\ pc' = "sync"
  /\ UNCHANGED <<base, run, edits, job, src, safe_delete_mode, aux_leftover, aux_edits>>

Handled == Wrote \/ Raise \/ ObjectNotCreated

LEMMA SyncedStays ==
  ASSUME TypeOK, NEW e \in diff, NEW M, Synced(e, M)
  PROVE  here' \in Sites \cup {None}
BY DEF TypeOK, Synced, Element

LEMMA SkipWrites == ASSUME TypeOK, NEW e \in diff, Skip(e) PROVE Wrote
BY SyncedStays DEF TypeOK, Skip, Synced, Wrote

LEMMA StoreKeeps ==
  ASSUME TypeOK, NEW e \in diff
  PROVE  Created(e) \subseteq Model /\ Deleted(e) \subseteq Model
BY DEF TypeOK, Created, Deleted, Element, Model, Located, Statuses

LEMMA CreateLocationWrites ==
  ASSUME TypeOK, NEW e \in diff, e.kind = "location", CreateLocation(e)
  PROVE  Wrote
<1>1. e.name \in Sites /\ e.data \in Data /\ run \in Int /\ db \subseteq Row
  BY DEF TypeOK, Element, Located
<1>2. db' = CreateSite(db, e.name, e.data, run)
  BY DEF CreateLocation
<1>3. /\ db' \subseteq Row /\ Pks(db) \subseteq Pks(db') /\ (HasSites(db) => HasSites(db'))
      /\ \A r \in db' \ db : r.ssot
  BY <1>1, <1>2, CreateSiteKeeps
<1>4. Pks(Named(db', "location", e.name)) \subseteq PkType
  BY <1>3, PksOfRows DEF Named
<1> QED BY <1>3, <1>4, StoreKeeps, SyncedStays DEF CreateLocation, Stamp, Synced, Wrote, TypeOK

LEMMA CreateDeviceHandles ==
  ASSUME TypeOK, NEW e \in diff, CreateDevice(e)
  PROVE  Handled
<1> DEFINE rows  == IF SiteExists(db, e.site) THEN db ELSE CreateSite(db, e.site, None, run)
           found == Matching(rows, "device", e.name, e.site, e.data)
           new   == NewRow("device", e.name, e.site, e.data, run)
<1>0. e \in Element /\ run \in Int /\ db \subseteq Row /\ stamped \subseteq PkType
  BY DEF TypeOK
<1>1. /\ rows \subseteq Row /\ Pks(db) \subseteq Pks(rows)
      /\ SiteExists(rows, e.site) /\ (HasSites(db) => HasSites(rows))
      /\ \A r \in rows \ db : r.ssot
  <2>1. e.site \in Sites /\ None \in Data
    BY <1>0 DEF Element, Data
  <2> QED BY <2>1, <1>0, CreateSiteKeeps
<1>2. new \in Row /\ new.site = e.site
  BY <1>0 DEF Element, NewRow, Row, Located, Statuses, Kinds
<1>3. CASE ~ Single(found)
  BY <1>3 DEF CreateDevice, Handled
<1>4. CASE Single(found)
  <2>1. PICK r \in (IF found = {} THEN {new} ELSE found) :
          /\ Save(rows, r, TagObject(r))
          /\ Stamp((IF Clashes(rows, r) THEN {} ELSE {Pk(r)}) \cup (Pks(rows) \ Pks(db)))
          /\ Synced(e, Created(e)) /\ UNCHANGED objects_to_delete
    BY <1>4 DEF CreateDevice
  <2>2. r \in Row /\ r.site = e.site
    BY <1>1, <1>2 DEF Matching
  <2>3. TagObject(r) \in Row /\ Pk(TagObject(r)) = Pk(r) /\ TagObject(r).ssot
    BY <2>2, TagObjectKeeps
  <2>4. /\ db' \subseteq Row /\ Pks(rows) \subseteq Pks(db')
        /\ HasSites(rows) => HasSites(db')
    BY <1>1, <2>1, <2>2, <2>3, SaveKeeps DEF Save
  <2>5. stamped' \subseteq PkType
    BY <1>0, <1>1, <2>1, <2>2, PkIsPk, PksOfRows DEF Stamp
  <2>6. \A q \in db' \ db : q.ssot
    BY <1>1, <2>1, <2>3 DEF Save
  <2>7. Wrote
    BY <1>1, <2>1, <2>4, <2>5, <2>6, StoreKeeps, SyncedStays DEF Wrote, Synced, TypeOK
  <2> QED BY <2>7 DEF Handled
<1> QED BY <1>3, <1>4

LEMMA CreateVlanHandles ==
  ASSUME TypeOK, NEW e \in diff, CreateVlan(e)
  PROVE  Handled
<1> DEFINE found == Matching(db, "vlan", e.name, e.site, e.data)
           new   == NewRow("vlan", e.name, e.site, e.data, run)
<1>0. e \in Element /\ run \in Int /\ db \subseteq Row /\ stamped \subseteq PkType
  BY DEF TypeOK
<1>2. new \in Row /\ new.site = e.site
  BY <1>0 DEF Element, NewRow, Row, Located, Statuses, Kinds
<1>3. CASE ~ SiteExists(db, e.site) \/ ~ Single(found)
  BY <1>3 DEF CreateVlan, Handled
<1>4. CASE SiteExists(db, e.site) /\ Single(found)
  <2>1. PICK r \in (IF found = {} THEN {new} ELSE found) :
          /\ Save(db, r, TagObject(r)) /\ Stamp({Pk(r)})
          /\ Synced(e, Created(e)) /\ UNCHANGED objects_to_delete
    BY <1>4 DEF CreateVlan
  <2>2. r \in Row /\ r.site = e.site
    BY <1>0, <1>2 DEF Matching
  <2>3. TagObject(r) \in Row /\ Pk(TagObject(r)) = Pk(r) /\ TagObject(r).ssot
    BY <2>2, TagObjectKeeps
  <2>4. /\ db' \subseteq Row /\ Pks(db) \subseteq Pks(db')
        /\ HasSites(db) => HasSites(db')
    BY <1>0, <1>4, <2>1, <2>2, <2>3, SaveKeeps DEF Save
  <2>5. stamped' \subseteq PkType
    BY <1>0, <2>1, <2>2, PkIsPk DEF Stamp
  <2>6. \A q \in db' \ db : q.ssot
    BY <2>1, <2>3 DEF Save
  <2>7. Wrote
    BY <2>1, <2>4, <2>5, <2>6, StoreKeeps, SyncedStays DEF Wrote, Synced, TypeOK
  <2> QED BY <2>7 DEF Handled
<1> QED BY <1>3, <1>4

LEMMA UpdateRowWrites ==
  ASSUME TypeOK, NEW e \in diff, NEW r \in db, UpdateRow(e, r)
  PROVE  Wrote
<1>0. e \in Element /\ r \in Row /\ db \subseteq Row /\ stamped \subseteq PkType
  BY DEF TypeOK
<1>1. Updated(r, e) \in Row /\ Pk(Updated(r, e)) = Pk(r) /\ Updated(r, e).ssot
  BY <1>0, UpdatedKeeps
<1>2. db' \subseteq Row /\ Pks(db) \subseteq Pks(db') /\ (HasSites(db) => HasSites(db'))
  BY <1>0, <1>1, SaveKeeps DEF UpdateRow, Save
<1>3. stamped' \subseteq PkType
  BY <1>0, PkIsPk DEF UpdateRow, Stamp
<1>4. \A q \in db' \ db : q.ssot
  BY <1>1 DEF UpdateRow, Save
<1> QED BY <1>2, <1>3, <1>4, SyncedStays DEF UpdateRow, Wrote, Synced, TypeOK

LEMMA SafeDeleteWrites ==
  ASSUME TypeOK, NEW e \in diff, NEW r \in db, SafeDelete(e, r)
  PROVE  Wrote
<1>0. r \in Row /\ db \subseteq Row /\ stamped \subseteq PkType /\ objects_to_delete \subseteq PkType
  BY DEF TypeOK
<1>1. SafeDeleted(r) \in Row /\ Pk(SafeDeleted(r)) = Pk(r) /\ Pk(r) \in PkType
  BY <1>0, SafeDeletedKeeps, PkIsPk
<1>2. db' \subseteq Row /\ Pks(db) \subseteq Pks(db') /\ (HasSites(db) => HasSites(db'))
  <2>1. CASE safe_delete_mode
    BY <2>1, <1>0, <1>1, SaveKeeps DEF SafeDelete, Save
  <2>2. CASE ~ safe_delete_mode
    BY <2>2, <1>0 DEF SafeDelete
  <2> QED BY <2>1, <2>2
<1>3. stamped' \subseteq PkType /\ objects_to_delete' \subseteq PkType
  BY <1>0, <1>1 DEF SafeDelete, Stamp
<1>4. \A q \in db' \ db : q.ssot
  BY <1>0, SafeDeletedKeeps DEF SafeDelete, Save
<1> QED BY <1>2, <1>3, <1>4, StoreKeeps, SyncedStays DEF SafeDelete, Wrote, Synced, TypeOK

LEMMA UpdateHandles ==
  ASSUME TypeOK, NEW e \in diff, Update(e)
  PROVE  Handled
<1>0. e.kind \in Kinds
  BY DEF TypeOK, Element
<1>1. CASE e.kind = "location"
  <2>1. UpdateLocation(e)
    BY <1>1 DEF Update
  <2> QED BY <2>1, UpdateRowWrites DEF UpdateLocation, Handled, Named
<1>2. CASE e.kind = "device"
  <2>1. UpdateDevice(e)
    BY <1>2 DEF Update
  <2>2. Skip(e) \/ Raise \/ \E r \in Named(db, "device", e.name) : UpdateRow(e, r)
    BY <2>1 DEF UpdateDevice
  <2> QED BY <2>2, SkipWrites, UpdateRowWrites DEF Handled, Named
<1>3. CASE e.kind = "vlan"
  <2>1. UpdateVlan(e)
    BY <1>3 DEF Update
  <2>2. Raise \/ \E r \in Named(db, "vlan", e.name) : UpdateRow(e, r)
    BY <2>1 DEF UpdateVlan
  <2> QED BY <2>2, UpdateRowWrites DEF Handled, Named
<1> QED BY <1>0, <1>1, <1>2, <1>3 DEF Kinds

LEMMA DeleteHandles ==
  ASSUME TypeOK, NEW e \in diff, Delete(e)
  PROVE  Handled
<1>0. e.kind \in Kinds
  BY DEF TypeOK, Element
<1>1. CASE e.kind = "location"
  <2>1. DeleteLocation(e)
    BY <1>1 DEF Delete
  <2> QED BY <2>1, SafeDeleteWrites DEF DeleteLocation, Handled, Named
<1>2. CASE e.kind = "device"
  <2>1. DeleteDevice(e)
    BY <1>2 DEF Delete
  <2>2. Skip(e) \/ Raise \/ \E r \in Named(db, "device", e.name) : SafeDelete(e, r)
    BY <2>1 DEF DeleteDevice
  <2> QED BY <2>2, SkipWrites, SafeDeleteWrites DEF Handled, Named
<1>3. CASE e.kind = "vlan"
  <2>1. DeleteVlan(e)
    BY <1>3 DEF Delete
  <2>2. Raise \/ \E r \in db : SafeDelete(e, r)
    BY <2>1 DEF DeleteVlan
  <2> QED BY <2>2, SafeDeleteWrites DEF Handled
<1> QED BY <1>0, <1>1, <1>2, <1>3 DEF Kinds

LEMMA CreateHandles ==
  ASSUME TypeOK, NEW e \in diff, Create(e)
  PROVE  Handled
<1>0. e.kind \in Kinds
  BY DEF TypeOK, Element
<1>1. CASE Stored(dst, e)
  BY <1>1 DEF Create, Handled
<1>2. CASE ~ Stored(dst, e) /\ e.kind = "location"
  BY <1>2, CreateLocationWrites DEF Create, Handled
<1>3. CASE ~ Stored(dst, e) /\ e.kind = "device"
  BY <1>3, CreateDeviceHandles DEF Create
<1>4. CASE ~ Stored(dst, e) /\ e.kind = "vlan"
  BY <1>4, CreateVlanHandles DEF Create
<1> QED BY <1>0, <1>1, <1>2, <1>3, <1>4 DEF Kinds

(* Every handler writes, raises or stops the sync.                         *)
LEMMA SyncElementHandles == ASSUME TypeOK, SyncElement PROVE Handled
BY CreateHandles, UpdateHandles, DeleteHandles DEF SyncElement

(* An edit by a user replaces a row of both databases by another one with  *)
(* the same primary key.                                                   *)
LEMMA UserEditsInPlace ==
  ASSUME TypeOK, UserEdits
  PROVE  \E r, q \in Row : /\ r \in db /\ r \in base /\ Pk(q) = Pk(r)
                           /\ db'   = (db \ {r}) \cup {q}
                           /\ base' = (base \ {r}) \cup {q}
<1>1. PICK r \in Unlocked :
        \E q \in {[r EXCEPT !.status = "Active"], [r EXCEPT !.ssot = ~ @]} :
          db' = (db \ {r}) \cup {q} /\ base' = (base \ {r}) \cup {q}
  BY DEF UserEdits
<1>2. r \in db /\ r \in base /\ r \in Row
  BY DEF Unlocked, TypeOK
<1>3. \A q \in {[r EXCEPT !.status = "Active"], [r EXCEPT !.ssot = ~ @]} :
        q \in Row /\ Pk(q) = Pk(r)
  BY <1>2 DEF Row, Located, Statuses, Pk
<1> QED BY <1>1, <1>2, <1>3

-----------------------------------------------------------------------------
(* Type correctness                                                        *)

LEMMA DatabasesHaveTypes ==
  ASSUME NEW R \in InitialRows
  PROVE  R \subseteq Row /\ HasSites(R)
BY InitialRowsAssumption DEF IsDatabase, HasSites

LEMMA SnapshotsHaveTypes == ASSUME NEW S \in Snapshots PROVE S \subseteq Item
BY SnapshotsAssumption DEF IsSnapshot

LEMMA InitTypeOK == Init => TypeOK
BY DatabasesHaveTypes DEF Init, TypeOK, Phases

LEMMA ForgetTypes ==
  ASSUME Forget
  PROVE  /\ stamped' \subseteq PkType /\ pc' = "idle" /\ pc' \in Phases /\ job' = None
         /\ src' \subseteq Item /\ dst' \subseteq Model /\ diff' \subseteq Element
         /\ here' \in Sites \cup {None} /\ aux_leftover' \subseteq PkType /\ aux_edits' \in Nat
BY DEF Forget, Phases

LEMMA NextTypeOK == TypeOK /\ [Next]_vars => TypeOK'
<1> SUFFICES ASSUME TypeOK, [Next]_vars PROVE TypeOK'
  OBVIOUS
<1>1. CASE StartJob
  BY <1>1, OptionsAssumption DEF StartJob, TypeOK, Phases, tables, process
<1>2. CASE LoadSource
  BY <1>2, SnapshotsHaveTypes DEF LoadSource, TypeOK, Phases, tables, process
<1>3. CASE Raise
  BY <1>3, ForgetTypes DEF Raise, TypeOK, process
<1>4. CASE LoadTarget
  <2>1. job.safe \in BOOLEAN
    BY <1>4 DEF LoadTarget, TypeOK, Option
  <2>2. ASSUME NEW L \in Loads(db, job.tagged_only, job.site_filter)
        PROVE  {ToModel(r) : r \in L} \subseteq Model
    BY LoadsAreRows, ToModelIsModel DEF TypeOK
  <2> QED BY <1>4, <2>1, <2>2 DEF LoadTarget, TypeOK, Phases, tables
<1>5. CASE CalculateDiff
  <2>1. DiffFrom(src, dst) \subseteq Element
    BY DiffFromIsElements DEF TypeOK
  <2> QED BY <1>5, <2>1 DEF CalculateDiff, TypeOK, Phases, tables, process
<1>6. CASE Wrote /\ pc = "sync"
  BY <1>6 DEF Wrote, TypeOK, Phases
<1>7. CASE ObjectNotCreated /\ pc = "sync"
  BY <1>7 DEF ObjectNotCreated, TypeOK, Phases, tables, process, locals
<1>8. CASE SyncComplete
  BY <1>8 DEF SyncComplete, TypeOK, Phases, Cleanup, tables, process, locals
<1>9. CASE DeleteGroup
  BY <1>9 DEF DeleteGroup, TypeOK, Phases, Cleanup, locals
<1>10. CASE FinishJob \/ ClientNotReady
  BY <1>10, ForgetTypes DEF FinishJob, ClientNotReady, TypeOK, process
<1>11. CASE UserDeletes
  BY <1>11 DEF UserDeletes, TypeOK, process, locals
<1>12. CASE UserEdits
  BY <1>12, UserEditsInPlace DEF UserEdits, TypeOK, process, locals
<1>13. CASE UserAdds
  <2>1. PICK x \in UNION Snapshots :
          LET r == NewRow(x.kind, x.name, x.site, x.data, UserStamp)
          IN  db' = db \cup {r} /\ base' = base \cup {r}
    BY <1>13 DEF UserAdds
  <2>2. UserStamp \in Int
    BY BoundsAssumption DEF UserStamp, TypeOK
  <2>3. NewRow(x.kind, x.name, x.site, x.data, UserStamp) \in Row
    BY <2>2, SnapshotsHaveTypes DEF NewRow, Item, Row, Located, Statuses
  <2> QED BY <1>13, <2>1, <2>3 DEF UserAdds, TypeOK, process, locals
<1>14. CASE WorkerRestart
  BY <1>14, ForgetTypes DEF WorkerRestart, TypeOK
<1>15. CASE UNCHANGED vars
  BY <1>15 DEF vars, tables, process, locals, TypeOK
<1>16. SyncElement => (Wrote \/ Raise \/ ObjectNotCreated) /\ pc = "sync"
  BY SyncElementHandles DEF Handled, SyncElement
<1> QED
  BY <1>1, <1>2, <1>3, <1>4, <1>5, <1>6, <1>7, <1>8, <1>9, <1>10, <1>11, <1>12, <1>13,
     <1>14, <1>15, <1>16 DEF Next, JobStep, SourceFails

(* The variables of the sync keep their types.                             *)
THEOREM TypeCorrect == Spec => []TypeOK
BY InitTypeOK, NextTypeOK, PTL DEF Spec

-----------------------------------------------------------------------------
(* Safe delete mode removes nothing                                        *)

(* Between two jobs everything is committed; from the load of the target   *)
(* on, the class attribute agrees with the option of the job.              *)
SafeInv ==
  /\ pc = "idle" => db = base
  /\ pc \notin {"idle", "source", "target"} => safe_delete_mode = job.safe
  /\ SafeRunKeepsRows

LEMMA InitSafeInv == Init => SafeInv
BY DEF Init, SafeInv, SafeRunKeepsRows, Running

LEMMA NextSafeInv == TypeOK /\ SafeInv /\ [Next]_vars => SafeInv'
<1> SUFFICES ASSUME TypeOK, SafeInv, [Next]_vars PROVE SafeInv'
  OBVIOUS
<1> USE DEF SafeInv, SafeRunKeepsRows, Running
<1>1. CASE StartJob
  BY <1>1 DEF StartJob, tables
<1>2. CASE LoadSource
  BY <1>2 DEF LoadSource, tables, process
<1>3. CASE Raise
  BY <1>3 DEF Raise, Forget
<1>4. CASE LoadTarget
  BY <1>4 DEF LoadTarget, tables
<1>5. CASE CalculateDiff
  BY <1>5 DEF CalculateDiff, tables, process
<1>6. CASE Wrote /\ pc = "sync"
  BY <1>6 DEF Wrote
<1>7. CASE ObjectNotCreated /\ pc = "sync"
  BY <1>7 DEF ObjectNotCreated, tables, process, locals
<1>8. CASE SyncComplete
  BY <1>8 DEF SyncComplete, tables, process, locals
<1>9. CASE DeleteGroup
  BY <1>9 DEF DeleteGroup, Cleanup, locals
<1>10. CASE FinishJob \/ ClientNotReady
  BY <1>10 DEF FinishJob, ClientNotReady, Forget
<1>11. CASE UserDeletes
  BY <1>11 DEF UserDeletes, process, locals, Pks
<1>12. CASE UserEdits
  <2>1. db' \subseteq Row /\ (db = base => db' = base')
    BY <1>12, UserEditsInPlace DEF TypeOK
  <2>2. Pks(db') = Pks(db) /\ Pks(base') = Pks(base)
    BY <1>12, UserEditsInPlace DEF Pks
  <2> QED BY <1>12, <2>1, <2>2 DEF UserEdits, process, locals
<1>13. CASE UserAdds
  BY <1>13 DEF UserAdds, process, locals, Pks
<1>14. CASE WorkerRestart
  BY <1>14 DEF WorkerRestart, Forget
<1>15. CASE UNCHANGED vars
  BY <1>15 DEF vars, tables, process, locals
<1>16. SyncElement => (Wrote \/ Raise \/ ObjectNotCreated) /\ pc = "sync"
  BY SyncElementHandles DEF Handled, SyncElement
<1> QED
  BY <1>1, <1>2, <1>3, <1>4, <1>5, <1>6, <1>7, <1>8, <1>9, <1>10, <1>11, <1>12, <1>13,
     <1>14, <1>15, <1>16 DEF Next, JobStep, SourceFails

(* A job in safe delete mode removes no row, whatever jobs ran before it   *)
(* in the same process and whatever users do meanwhile.                    *)
THEOREM SafeMode == Spec => []SafeRunKeepsRows
<1>1. SafeInv => SafeRunKeepsRows
  BY DEF SafeInv
<1> QED BY <1>1, InitSafeInv, NextSafeInv, TypeCorrect, PTL DEF Spec

-----------------------------------------------------------------------------
(* Referential integrity                                                   *)

(* What goes is a VLAN, a device or a site nothing stands in.              *)
LEMMA RemovalKeepsSites ==
  ASSUME NEW R \in SUBSET Row, HasSites(R), NEW N \in SUBSET R,
         \A r \in R \ N : ~ Protected(R, r)
  PROVE  HasSites(N)
<1> SUFFICES ASSUME NEW n \in N PROVE SiteExists(N, n.site)
  BY DEF HasSites
<1>1. PICK s \in R : s.kind = "location" /\ s.name = n.site
  BY DEF HasSites, SiteExists, Named
<1>2. CASE n.kind = "location"
  BY <1>2 DEF SiteExists, Named, Row, Located
<1>3. CASE n.kind # "location"
  <2>1. s \in N
    BY <1>1, <1>3 DEF Protected
  <2> QED BY <1>1, <2>1 DEF SiteExists, Named
<1> QED BY <1>2, <1>3

LEMMA ReferenceInit == Init => ReferentialIntegrity
BY DatabasesHaveTypes DEF Init, ReferentialIntegrity, HasSites

LEMMA ReferenceNext ==
  TypeOK /\ ReferentialIntegrity /\ [Next]_vars => ReferentialIntegrity'
<1> SUFFICES ASSUME TypeOK, HasSites(db), HasSites(base), [Next]_vars
             PROVE  HasSites(db') /\ HasSites(base')
  BY DEF ReferentialIntegrity, HasSites
<1>0. db \in SUBSET Row /\ base \in SUBSET Row
  BY DEF TypeOK
<1>1. CASE UNCHANGED <<db, base>>
  BY <1>1
<1>2. CASE Raise \/ WorkerRestart
  BY <1>2 DEF Raise, WorkerRestart
<1>3. CASE Wrote
  BY <1>3 DEF Wrote
<1>4. CASE FinishJob \/ ClientNotReady
  BY <1>4 DEF FinishJob, ClientNotReady
<1>5. CASE DeleteGroup
  <2>1. db' \subseteq db /\ \A r \in db \ db' : ~ Protected(db, r)
    BY <1>5 DEF DeleteGroup
  <2> QED BY <1>0, <1>5, <2>1, RemovalKeepsSites DEF DeleteGroup
<1>6. CASE UserDeletes
  <2>1. PICK r \in Unlocked : /\ ~ Protected(db \cup base, r)
                             /\ db'   = {q \in db : Pk(q) # Pk(r)}
                             /\ base' = {q \in base : Pk(q) # Pk(r)}
    BY <1>6 DEF UserDeletes
  <2>2. \A q \in db \cup base : Pk(q) = Pk(r) => ~ Protected(db, q) /\ ~ Protected(base, q)
    BY <2>1 DEF Protected, Pk
  <2>3. HasSites(db')
    BY <1>0, <2>1, <2>2, RemovalKeepsSites
  <2>4. HasSites(base')
    BY <1>0, <2>1, <2>2, RemovalKeepsSites
  <2> QED BY <2>3, <2>4
<1>7. CASE UserEdits
  <2>1. PICK r, q \in Row : /\ r \in db /\ r \in base /\ Pk(q) = Pk(r)
                           /\ db'   = (db \ {r}) \cup {q}
                           /\ base' = (base \ {r}) \cup {q}
    BY <1>7, UserEditsInPlace
  <2>2. HasSites(db')
    BY <1>0, <2>1, SaveKeeps
  <2>3. HasSites(base')
    BY <1>0, <2>1, SaveKeeps
  <2> QED BY <2>2, <2>3
<1>8. CASE UserAdds
  <2>1. PICK x \in UNION Snapshots :
          LET r == NewRow(x.kind, x.name, x.site, x.data, UserStamp)
          IN  /\ r.kind # "location" => SiteExists(Unlocked, r.site)
              /\ db' = db \cup {r} /\ base' = base \cup {r}
    BY <1>8 DEF UserAdds
  <2> DEFINE r == NewRow(x.kind, x.name, x.site, x.data, UserStamp)
  <2>2. x \in Item /\ r.kind = x.kind /\ r.name = x.name /\ r.site = x.site
    BY SnapshotsHaveTypes DEF NewRow
  <2>3. ASSUME NEW R, HasSites(R), Unlocked \subseteq R
        PROVE  HasSites(R \cup {r})
    BY <2>1, <2>2, <2>3 DEF HasSites, SiteExists, Named, Item, Located
  <2>4. Unlocked \subseteq db /\ Unlocked \subseteq base
    BY DEF Unlocked
  <2> QED BY <2>1, <2>3, <2>4
<1>9. SyncElement => Wrote \/ Raise \/ ObjectNotCreated
  BY SyncElementHandles DEF Handled
<1> QED
  BY <1>1, <1>2, <1>3, <1>4, <1>5, <1>6, <1>7, <1>8, <1>9
  DEF Next, JobStep, vars, tables, StartJob, LoadSource, SourceFails, LoadTarget,
      CalculateDiff, ObjectNotCreated, SyncComplete

(* No device and no VLAN ever stands in a site that is gone.               *)
THEOREM References == Spec => []ReferentialIntegrity
BY ReferenceInit, ReferenceNext, TypeCorrect, PTL DEF Spec

-----------------------------------------------------------------------------
(* The job is a transaction that keeps its promise                         *)

(* Up to the commit, what differs from the committed rows bears the tag;   *)
(* a dry run differs in nothing and never begins to sync.                  *)
DryInv ==
  /\ \A r \in db \ base : r.ssot
  /\ pc \in {"idle", "source"} => db = base
  /\ Running /\ job.dry_run => db = base /\ pc \in {"source", "target", "diff", "done"}

LEMMA InitDryInv == Init => DryInv
BY DEF Init, DryInv, Running

LEMMA NextDryInv == TypeOK /\ DryInv /\ [Next]_vars => DryInv'
<1> SUFFICES ASSUME TypeOK, DryInv, [Next]_vars PROVE DryInv'
  OBVIOUS
<1> USE DEF DryInv, Running
<1>1. CASE StartJob
  BY <1>1 DEF StartJob, tables
<1>2. CASE LoadSource
  BY <1>2 DEF LoadSource, tables
<1>3. CASE Raise \/ WorkerRestart
  BY <1>3 DEF Raise, WorkerRestart, Forget
<1>4. CASE LoadTarget
  BY <1>4 DEF LoadTarget, tables
<1>5. CASE CalculateDiff
  BY <1>5 DEF CalculateDiff, tables
<1>6. CASE Wrote /\ pc = "sync"
  BY <1>6 DEF Wrote
<1>7. CASE ObjectNotCreated /\ pc = "sync"
  BY <1>7 DEF ObjectNotCreated, tables, locals
<1>8. CASE SyncComplete
  BY <1>8 DEF SyncComplete, tables, locals
<1>9. CASE DeleteGroup
  BY <1>9 DEF DeleteGroup, Cleanup, locals
<1>10. CASE FinishJob \/ ClientNotReady
  BY <1>10 DEF FinishJob, ClientNotReady, Forget
<1>11. CASE UserDeletes
  BY <1>11 DEF UserDeletes, locals
<1>12. CASE UserEdits
  <2>1. \A r \in db' \ base' : r \in db \ base
    BY <1>12, UserEditsInPlace
  <2>2. db = base => db' = base'
    BY <1>12, UserEditsInPlace
  <2> QED BY <1>12, <2>1, <2>2 DEF UserEdits, locals
<1>13. CASE UserAdds
  BY <1>13 DEF UserAdds, locals
<1>14. CASE UNCHANGED vars
  BY <1>14 DEF vars, tables, locals
<1>15. SyncElement => (Wrote \/ Raise \/ ObjectNotCreated) /\ pc = "sync"
  BY SyncElementHandles DEF Handled, SyncElement
<1> QED
  BY <1>1, <1>2, <1>3, <1>4, <1>5, <1>6, <1>7, <1>8, <1>9, <1>10, <1>11, <1>12, <1>13,
     <1>14, <1>15 DEF Next, JobStep, SourceFails

(* Every step of the job is a step of the transaction, or changes neither  *)
(* the committed rows nor the options and is no edit.                      *)
LEMMA StepIsTransactionStep ==
  TypeOK /\ TypeOK' /\ ReferentialIntegrity' /\ SafeInv /\ DryInv /\ [Next]_vars
    => [T!Next]_(T!vars)
<1> SUFFICES ASSUME TypeOK, TypeOK', ReferentialIntegrity', SafeInv, DryInv, [Next]_vars
             PROVE  T!Next \/ UNCHANGED <<base, job, edits>>
  BY DEF T!vars
<1>1. CASE StartJob
  BY <1>1 DEF StartJob, tables, TypeOK, T!Next, T!Begin
<1>2. CASE Raise \/ WorkerRestart
  BY <1>2 DEF Raise, WorkerRestart, Forget, T!Next, T!Abort
<1>3. CASE ClientNotReady
  BY <1>3 DEF ClientNotReady, Forget, DryInv, T!Next, T!Abort, TypeOK, Option
<1>4. CASE FinishJob
  <2>1. job # None /\ job' = None /\ base' = db /\ edits' = edits
    BY <1>4, OptionsAssumption DEF FinishJob, Forget, TypeOK
  <2>2. JobPromise(job, base, base')
    BY <1>4, <2>1 DEF JobPromise, DryInv, SafeInv, SafeRunKeepsRows, Running, FinishJob
  <2>3. HasSites(base')
    BY DEF ReferentialIntegrity
  <2> QED BY <2>1, <2>2, <2>3 DEF T!Next, T!Commit
<1>5. CASE UserDeletes \/ UserEdits \/ UserAdds
  <2>1. edits' = edits + 1 /\ UNCHANGED job
    BY <1>5 DEF UserDeletes, UserEdits, UserAdds, locals
  <2>2. HasSites(base')
    BY DEF ReferentialIntegrity
  <2> QED BY <2>1, <2>2 DEF T!Next, T!Edit
<1>6. CASE LoadSource \/ LoadTarget \/ CalculateDiff \/ SyncComplete \/ DeleteGroup
  BY <1>6 DEF LoadSource, LoadTarget, CalculateDiff, SyncComplete, DeleteGroup, tables, locals
<1>7. CASE Wrote \/ ObjectNotCreated \/ UNCHANGED vars
  BY <1>7 DEF Wrote, ObjectNotCreated, vars, tables, locals
<1>8. SyncElement => Wrote \/ Raise \/ ObjectNotCreated
  BY SyncElementHandles DEF Handled
<1> QED
  BY <1>1, <1>2, <1>3, <1>4, <1>5, <1>6, <1>7, <1>8 DEF Next, JobStep, SourceFails

(* A sync job, with all its handlers, failures, restarts and edits by      *)
(* users, refines the transaction of SyncTransaction.                      *)
THEOREM Transaction == Spec => KeepsPromise
<1>1. Init => T!Init
  BY DEF Init, T!Init
<1>2. Spec => [](TypeOK /\ SafeInv /\ ReferentialIntegrity /\ DryInv)
  BY InitTypeOK, NextTypeOK, InitSafeInv, NextSafeInv, ReferenceInit, ReferenceNext,
     InitDryInv, NextDryInv, PTL DEF Spec
<1> QED BY <1>1, <1>2, StepIsTransactionStep, PTL DEF Spec, KeepsPromise, T!SafeSpec

-----------------------------------------------------------------------------
(* The invariant of the rows a job reaches                                 *)

(* Primary keys are used once, and so are the names of sites.              *)
Fine(R) == /\ R \subseteq Row
           /\ \A q, r \in R : Pk(q) = Pk(r) => q = r
           /\ \A q, r \in R : q.kind = "location" /\ Key(q) = Key(r) => q = r
           /\ Numbered(R)

(* What the options of the job leave alone, and what the job may delete.   *)
Outside(r) == \/ job.site_filter \notin {None, r.site}
              \/ job.tagged_only /\ r.kind # "vlan" /\ ~ r.ssot
Due(l) == Key(l) \notin Keys(src) /\ ~ Outside(l)

(* What holds whatever users do. Rows bear the number of the job that made *)
(* them, or a stamp no job will ever have.                                 *)
RowsFine ==
  /\ Fine(db) /\ Fine(base) /\ run \leq MaxRuns /\ aux_edits \leq edits
  /\ \A r \in db \cup base : \/ r.born \leq run
                             \/ MaxRuns < r.born /\ r.born \leq MaxRuns + edits
  /\ Running => \A r \in base : r.born # run

(* Up to the sync nothing is written, read or queued.                      *)
NotYet ==
  /\ pc \in {"idle", "source", "target", "diff"} =>
       db = base /\ stamped = {} /\ diff = {}
  /\ pc \in {"source", "target", "diff"} => objects_to_delete = aux_leftover
  /\ pc \in {"idle", "source", "target"} => dst = {}

(* Elements that create come from the source, each for a row of its own.   *)
Planned ==
  \A e \in diff :
    /\ e.action = "create" => \E x \in src : e = ToElement(x, "create", {})
    /\ e.action = "create" /\ e.kind # "location" =>
         \A q \in db : Key(q) = Key(e) => q.born # run
    /\ e.action = "update" /\ e.kind # "location" => "site_id" \notin e.attrs

CoreInv == RowsFine /\ NotYet /\ IsSnapshot(src) /\ Planned

(* What holds as long as no user has edited since the job began.           *)
LoadedModel(m) == \E l \in base : m.pk = Pk(l) /\ Key(m) = Key(l) /\ ~ Outside(l)
StoreFine == /\ pc = "diff" => \A m \in dst : LoadedModel(m)
             /\ \A m \in dst : m.pk = None \/ LoadedModel(m)

DiffFine ==
  \A e \in diff :
    /\ e.action = "update" => Key(e) \in Keys(src) /\ Key(e) \in Keys(base)
    /\ e.action = "delete" => \E l \in base : Key(l) = Key(e) /\ Due(l)

(* What the sync adds bears its number.                                    *)
NewRows ==
  /\ pc = "sync" => Pks(base) \subseteq Pks(db)
  /\ \A q \in db : Pk(q) \in Pks(base) \/ q.born = run

QueueFine == aux_leftover = {} =>
               \A p \in objects_to_delete : \E l \in base : Pk(l) = p /\ Due(l)

(* Without a filter every device and VLAN has a model in the store, or one *)
(* of its name has; of several of a name none leaves the store.            *)
NoTwin ==
  /\ pc = "diff" /\ Unfiltered =>
       \A l \in base : l.kind # "location" => Stored(dst, l)
  /\ pc = "sync" /\ Unfiltered =>
       \A e \in diff : e.action = "create" /\ e.kind # "location" /\ Key(e) \in Keys(base) =>
         Stored(dst, e)

RowsInv == /\ Alone /\ CoreInv
           /\ StoreFine /\ DiffFine /\ NewRows /\ QueueFine /\ NoTwin
           /\ FlaggedStayUntouched /\ ScopeRespected /\ SourcedRowsSurvive
           /\ UnfilteredRunAddsNoDuplicate

Inv == CoreInv /\ (Alone => RowsInv)

-----------------------------------------------------------------------------
(* Rows                                                                    *)

LEMMA KeyOfPk == \A q, r : Pk(q) = Pk(r) => Key(q) = Key(r) /\ q.kind = r.kind /\ q.born = r.born
BY DEF Pk, Key

LEMMA KeyOfSite ==
  ASSUME NEW q \in Row, NEW r \in Row, q.kind = "location", r.kind = "location", q.name = r.name
  PROVE  Key(q) = Key(r)
BY DEF Row, Located, Key

LEMMA FineFewer == ASSUME NEW R, Fine(R), NEW N \in SUBSET R PROVE Fine(N)
BY DEF Fine, Numbered

(* Saving a row over itself.                                               *)
LEMMA FineSaved ==
  ASSUME NEW R, Fine(R), NEW w \in R, NEW n \in Row, Pk(n) = Pk(w), Numbered({w}) => Numbered({n})
  PROVE  Fine((R \ {w}) \cup {n})
<1>1. Key(n) = Key(w) /\ n.kind = w.kind
  BY KeyOfPk
<1>2. Numbered((R \ {w}) \cup {n})
  BY DEF Fine, Numbered
<1> QED BY <1>1, <1>2 DEF Fine

(* Saving a new one.                                                       *)
LEMMA FineAdded ==
  ASSUME NEW R, Fine(R), NEW n \in Row, Pk(n) \notin Pks(R), Numbered({n}),
         n.kind = "location" => ~ SiteExists(R, n.name)
  PROVE  Fine(R \cup {n})
<1>1. \A q \in R : Pk(q) # Pk(n)
  BY DEF Pks
<1>2. ASSUME NEW q \in R, q.kind = "location", n.kind = "location" PROVE Key(q) # Key(n)
  <2>1. q.name # n.name
    BY <1>2 DEF SiteExists, Named
  <2> QED BY <2>1 DEF Key
<1>3. \A q \in R : Key(q) = Key(n) => q.kind = n.kind
  BY DEF Key
<1>4. Numbered(R \cup {n})
  BY DEF Fine, Numbered
<1> QED BY <1>1, <1>2, <1>3, <1>4 DEF Fine

(* create_site saves the one site of the name, or a new one.               *)
LEMMA CreateSiteIs ==
  ASSUME NEW R, Fine(R), NEW s \in Sites, NEW id \in Data, NEW b \in Int
  PROVE  \/ \E w \in R, n \in Row : /\ w.kind = "location" /\ w.name = s /\ Pk(n) = Pk(w)
                                    /\ CreateSite(R, s, id, b) = (R \ {w}) \cup {n}
         \/ /\ ~ SiteExists(R, s)
            /\ \E n \in Row : /\ n.kind = "location" /\ n.name = s /\ n.site = s /\ n.born = b
                             /\ CreateSite(R, s, id, b) = R \cup {n}
<1> DEFINE activate(r) == [TagObject(r) EXCEPT !.status = "Active",
                                               !.data = IF id = None THEN @ ELSE id]
           new == NewRow("location", s, s, None, b)
<1>1. CreateSite(R, s, id, b) =
        (R \ Named(R, "location", s))
          \cup {activate(r) : r \in Named(R, "location", s) \cup (IF SiteExists(R, s) THEN {} ELSE {new})}
  BY DEF CreateSite
<1>2. new \in Row /\ new.kind = "location" /\ new.name = s /\ new.site = s /\ new.born = b
  BY DEF NewRow, Row, Located, Kinds, Names, Data, Statuses
<1>3. ASSUME NEW r \in Row
      PROVE  /\ activate(r) \in Row /\ Pk(activate(r)) = Pk(r)
             /\ activate(r).kind = r.kind /\ activate(r).name = r.name
             /\ activate(r).site = r.site /\ activate(r).born = r.born
  BY DEF Row, TagObject, Pk, Statuses, Located
<1> HIDE DEF activate, new
<1>4. CASE SiteExists(R, s)
  <2>1. PICK w \in R : w.kind = "location" /\ w.name = s
    BY <1>4 DEF SiteExists, Named
  <2>2. Named(R, "location", s) = {w}
    BY <2>1, KeyOfSite DEF Named, Fine
  <2>3. CreateSite(R, s, id, b) = (R \ {w}) \cup {activate(w)}
    BY <1>1, <1>4, <2>2
  <2>4. activate(w) \in Row /\ Pk(activate(w)) = Pk(w)
    BY <1>3 DEF Fine
  <2> QED BY <2>1, <2>3, <2>4
<1>5. CASE ~ SiteExists(R, s)
  <2>1. Named(R, "location", s) = {}
    BY <1>5 DEF SiteExists
  <2>2. CreateSite(R, s, id, b) = R \cup {activate(new)}
    BY <1>1, <1>5, <2>1
  <2> QED BY <1>2, <1>3, <1>5, <2>2
<1> QED BY <1>4, <1>5

LEMMA FineCreateSite ==
  ASSUME NEW R, Fine(R), NEW s \in Sites, NEW id \in Data, NEW b \in Int
  PROVE  Fine(CreateSite(R, s, id, b))
<1>1. CASE \E w \in R, n \in Row : /\ w.kind = "location" /\ w.name = s /\ Pk(n) = Pk(w)
                                   /\ CreateSite(R, s, id, b) = (R \ {w}) \cup {n}
  <2>1. PICK w \in R, n \in Row : /\ w.kind = "location" /\ Pk(n) = Pk(w)
                                 /\ w.name = s
                                 /\ CreateSite(R, s, id, b) = (R \ {w}) \cup {n}
    BY <1>1
  <2>2. Numbered({n})
    BY <2>1, KeyOfPk DEF Numbered
  <2>3. Fine((R \ {w}) \cup {n})
    BY <2>1, <2>2, FineSaved
  <2> QED BY <2>1, <2>3
<1>2. CASE ~ SiteExists(R, s) /\ \E n \in Row : /\ n.kind = "location" /\ n.name = s
                                               /\ n.site = s /\ n.born = b
                                               /\ CreateSite(R, s, id, b) = R \cup {n}
  <2>1. PICK n \in Row : /\ n.kind = "location" /\ n.name = s
                         /\ CreateSite(R, s, id, b) = R \cup {n}
    BY <1>2
  <2>2. Pk(n) \notin Pks(R)
    BY <1>2, <2>1 DEF Pks, Pk, SiteExists, Named
  <2>3. Numbered({n})
    BY <2>1 DEF Numbered
  <2> QED BY <1>2, <2>1, <2>2, <2>3, FineAdded
<1>3. \/ \E w \in R, n \in Row : /\ w.kind = "location" /\ w.name = s /\ Pk(n) = Pk(w)
                                 /\ CreateSite(R, s, id, b) = (R \ {w}) \cup {n}
      \/ /\ ~ SiteExists(R, s)
         /\ \E n \in Row : /\ n.kind = "location" /\ n.name = s /\ n.site = s /\ n.born = b
                          /\ CreateSite(R, s, id, b) = R \cup {n}
  BY CreateSiteIs
<1> QED BY <1>1, <1>2, <1>3

-----------------------------------------------------------------------------
(* What the handler of the element e leaves                                *)

Spared(r)  == r \in db' /\ (Pk(r) \in stamped' => Pk(r) \in stamped)
Deletable(p) == \E l \in base : Pk(l) = p /\ Due(l)

(* Whatever users do: the rows stay in order, and what is new is the row   *)
(* the element asks for, or its site.                                      *)
Kept(e) ==
  /\ Fine(db') /\ diff' = diff \ {e}
  /\ \A q \in db' : \/ Pk(q) \in Pks(db)
                    \/ /\ q.born = run /\ e.action = "create"
                       /\ \/ q.kind = "location" /\ q.name = e.site
                          \/ Key(q) = Key(e)

(* As long as no user edits: nothing else changes but what the element is  *)
(* about, and that may be deleted.                                         *)
Reached(e) ==
  /\ Kept(e)
  /\ \A r \in db : \/ Spared(r)
                   \/ e.action # "delete" /\ Key(r) = Key(e)
                   \/ e.action = "delete" /\ ~ IsFlagged(r) /\ Deletable(Pk(r))
  /\ e.action = "create" => ~ Stored(dst, e)
  /\ \A m \in dst' : m \in dst \/ m.pk = None
  /\ \A m \in dst : \/ m \in dst'
                    \/ /\ e.action = "delete" /\ Uid(m) = Uid(e)
                       /\ e.kind = "device" => Single(Named(db, "device", e.name))
  /\ \A p \in objects_to_delete' : p \in objects_to_delete \/ Deletable(p)

(* What holds when a handler begins.                                       *)
BeforeCore(e) == TypeOK /\ CoreInv /\ pc = "sync" /\ e \in diff
Before(e) == BeforeCore(e) /\ RowsInv

LEMMA ReachedByNone ==
  ASSUME NEW e, Before(e), e.action # "create", Skip(e)
  PROVE  Reached(e)
BY DEF Before, BeforeCore, RowsInv, CoreInv, RowsFine, Skip, Synced, Reached, Kept, Spared, Pks

(* A row of a key that the source has is saved over itself.                *)
LEMMA ReachedBySave ==
  ASSUME NEW e, Before(e), e.action = "update", NEW w \in db, NEW n \in Row, Pk(n) = Pk(w),
         Numbered({w}) => Numbered({n}), Key(w) = Key(e), Save(db, w, n), Stamp({Pk(w)}), diff' = diff \ {e},
         dst \subseteq dst', \A m \in dst' : m \in dst \/ m.pk = None, UNCHANGED objects_to_delete
  PROVE  Reached(e)
<1>1. Fine(db) /\ \A r \in db : Pk(r) = Pk(w) => r = w
  BY DEF Before, BeforeCore, RowsInv, CoreInv, RowsFine, Fine
<1>2. Fine(db') /\ db' = (db \ {w}) \cup {n}
  BY <1>1, FineSaved DEF Save
<1>3. \A r \in db : Spared(r) \/ Key(r) = Key(e)
  BY <1>1, <1>2 DEF Spared, Stamp
<1>4. \A q \in db' : Pk(q) \in Pks(db)
  BY <1>2 DEF Pks
<1> QED BY <1>2, <1>3, <1>4 DEF Reached, Kept

LEMMA CreatedIs ==
  ASSUME NEW e
  PROVE  dst \subseteq Created(e) /\ \A m \in Created(e) : m \in dst \/ m.pk = None
BY DEF Created

LEMMA ElementIs ==
  ASSUME NEW e, BeforeCore(e)
  PROVE  /\ e \in Element /\ e.name \in Names /\ e.site \in Sites /\ e.data \in Data
         /\ e.kind \in Kinds /\ run \in Int /\ Fine(db) /\ db \subseteq Row
         /\ e.kind = "location" => e.name \in Sites /\ e.site = e.name
BY DEF BeforeCore, TypeOK, Element, Located, CoreInv, RowsFine

LEMMA CreateLocationReaches ==
  ASSUME NEW e, BeforeCore(e), e.action = "create", e.kind = "location", ~ Stored(dst, e),
         CreateLocation(e)
  PROVE  Reached(e)
<1>1. /\ db' = CreateSite(db, e.name, e.data, run) /\ UNCHANGED objects_to_delete
      /\ stamped' = stamped \cup Pks(Named(db', "location", e.name))
      /\ diff' = diff \ {e} /\ dst' = Created(e)
  BY DEF CreateLocation, Stamp, Synced
<1>2. /\ Fine(db) /\ e.name \in Sites /\ e.data \in Data /\ run \in Int /\ db \subseteq Row
      /\ e.site = e.name
  BY ElementIs
<1>3. Fine(db')
  BY <1>1, <1>2, FineCreateSite
<1>4. ASSUME NEW r \in db, Key(r) # Key(e) PROVE Pk(r) \in stamped' => Pk(r) \in stamped
  <2>1. ASSUME NEW q \in Named(db', "location", e.name), Pk(q) = Pk(r) PROVE FALSE
    <3>1. q \in Row /\ q.kind = "location" /\ q.name = e.name
      BY <1>3 DEF Named, Fine
    <3>2. Key(q) = Key(e)
      BY <1>2, <3>1 DEF Key, Row, Located
    <3> QED BY <1>4, <2>1, <3>2, KeyOfPk
  <2> QED BY <1>1, <2>1 DEF Pks
<1>5. CASE \E w \in db, n \in Row : /\ w.kind = "location" /\ w.name = e.name /\ Pk(n) = Pk(w)
                                  /\ db' = (db \ {w}) \cup {n}
  <2>1. PICK w \in db, n \in Row : /\ w.kind = "location" /\ w.name = e.name /\ Pk(n) = Pk(w)
                                 /\ db' = (db \ {w}) \cup {n}
    BY <1>5
  <2>2. Key(w) = Key(e)
    BY <1>2, <2>1 DEF Key, Row, Located
  <2>3. \A r \in db : Spared(r) \/ Key(r) = Key(e)
    BY <1>4, <2>1, <2>2 DEF Spared
  <2>4. \A q \in db' : Pk(q) \in Pks(db)
    BY <2>1 DEF Pks
  <2> QED BY <1>1, <1>3, <2>3, <2>4, CreatedIs DEF Reached, Kept
<1>6. CASE \E n \in Row : /\ n.kind = "location" /\ n.name = e.name /\ n.born = run
                           /\ db' = db \cup {n}
  <2>1. PICK n \in Row : /\ n.kind = "location" /\ n.name = e.name /\ n.born = run
                         /\ db' = db \cup {n}
    BY <1>6
  <2>2. \A r \in db : Spared(r) \/ Key(r) = Key(e)
    BY <1>4, <2>1 DEF Spared
  <2>3. \A q \in db' : \/ Pk(q) \in Pks(db)
                       \/ q.born = run /\ q.kind = "location" /\ q.name = e.site
    BY <1>2, <2>1 DEF Pks
  <2> QED BY <1>1, <1>3, <2>2, <2>3, CreatedIs DEF Reached, Kept
<1> QED BY <1>1, <1>2, <1>5, <1>6, CreateSiteIs

(* A row is found by every field, or a new one is made; R is the database  *)
(* with a new site if there was none.                                      *)
LEMMA ReachedByCreate ==
  ASSUME NEW e, BeforeCore(e), e.action = "create", e.kind # "location", ~ Stored(dst, e),
         NEW R, Fine(R), db \subseteq R,
         \A q \in R \ db : q.kind = "location" /\ q.name = e.site /\ q.born = run,
         NEW r, r = NewRow(e.kind, e.name, e.site, e.data, run) \/ r \in Matching(R, e.kind, e.name, e.site, e.data),
         Save(R, r, TagObject(r)), stamped' \subseteq stamped \cup {Pk(r)} \cup (Pks(R) \ Pks(db)),
         Synced(e, Created(e)), UNCHANGED objects_to_delete
  PROVE  Reached(e)
<1>1. e \in Element /\ run \in Int /\ diff' = diff \ {e} /\ dst' = Created(e) /\ R \subseteq Row
  BY ElementIs DEF Synced, Fine
<1>2. r \in Row /\ Key(r) = Key(e) /\ r.kind = e.kind
  <2>1. CASE r = NewRow(e.kind, e.name, e.site, e.data, run)
    BY <1>1, <2>1, NewRowIsRow DEF Key, NewRow
  <2>2. CASE r \in Matching(R, e.kind, e.name, e.site, e.data)
    BY <1>1, <2>2 DEF Matching, Key
  <2> QED BY <2>1, <2>2
<1>3. TagObject(r) \in Row /\ Pk(TagObject(r)) = Pk(r) /\ Numbered({TagObject(r)})
  <2>1. r.data = e.data /\ (e.kind = "vlan" => e.data \in Vids)
    <3>1. PICK x \in src : e = ToElement(x, "create", {})
      BY DEF BeforeCore, CoreInv, Planned
    <3> QED BY <3>1 DEF BeforeCore, CoreInv, IsSnapshot, Numbered, ToElement, Matching, NewRow
  <2>2. TagObject(r).kind = e.kind /\ TagObject(r).data = e.data
    BY <1>2, <2>1 DEF Row, TagObject
  <2> QED BY <1>2, <2>1, <2>2, TagObjectKeeps DEF Numbered
<1>4. db' = (R \ {r}) \cup {TagObject(r)}
  BY DEF Save
<1>5. r \in R \/ (r.born = run /\ Pk(r) \notin Pks(R))
  <2>1. CASE r = NewRow(e.kind, e.name, e.site, e.data, run)
    <3>1. r.born = run
      BY <2>1 DEF NewRow
    <3>2. ASSUME NEW q \in R, Pk(q) = Pk(r) PROVE FALSE
      <4>1. Key(q) = Key(e) /\ q.kind = e.kind /\ q.born = run
        BY <1>2, <3>1, <3>2, KeyOfPk
      <4>2. q \in db
        BY <4>1
      <4>3. q.born # run
        BY <4>1, <4>2 DEF BeforeCore, CoreInv, Planned
      <4> QED BY <1>1, <4>1, <4>3
    <3> QED BY <3>1, <3>2 DEF Pks
  <2>2. CASE r \in Matching(R, e.kind, e.name, e.site, e.data)
    BY <2>2 DEF Matching
  <2> QED BY <2>1, <2>2
<1>6. Fine(db')
  <2>1. CASE r \in R
    BY <1>3, <1>4, <2>1, FineSaved
  <2>2. CASE r \notin R
    <3>1. db' = R \cup {TagObject(r)} /\ Pk(TagObject(r)) \notin Pks(R)
      BY <1>3, <1>4, <1>5, <2>2
    <3>2. TagObject(r).kind # "location"
      BY <1>2, <1>3, KeyOfPk
    <3> QED BY <1>3, <3>1, <3>2, FineAdded
  <2> QED BY <2>1, <2>2
<1>7. ASSUME NEW q \in db, Key(q) # Key(e) PROVE Spared(q)
  <2>1. q \in db' /\ Pk(q) # Pk(r) /\ Pk(q) \in Pks(db)
    BY <1>2, <1>4, <1>7, KeyOfPk DEF Pks
  <2> QED BY <2>1 DEF Spared
<1>8. ASSUME NEW q \in db'
      PROVE  \/ Pk(q) \in Pks(db)
             \/ /\ q.born = run
                /\ (q.kind = "location" /\ q.name = e.site) \/ Key(q) = Key(e)
  <2>1. CASE q \in R
    BY <2>1 DEF Pks
  <2>2. CASE q = TagObject(r)
    BY <1>2, <1>3, <1>5, <2>2, KeyOfPk DEF Pks
  <2> QED BY <1>4, <2>1, <2>2
<1> QED BY <1>1, <1>6, <1>7, <1>8, CreatedIs DEF Reached, Kept

LEMMA CreateDeviceReaches ==
  ASSUME NEW e, BeforeCore(e), e.action = "create", e.kind = "device", ~ Stored(dst, e),
         CreateDevice(e)
  PROVE  Raise \/ Reached(e)
<1> DEFINE R     == IF SiteExists(db, e.site) THEN db ELSE CreateSite(db, e.site, None, run)
           found == Matching(R, "device", e.name, e.site, e.data)
           new   == NewRow("device", e.name, e.site, e.data, run)
<1> SUFFICES ASSUME Single(found) PROVE Reached(e)
  BY DEF CreateDevice
<1>1. e.site \in Sites /\ None \in Data /\ run \in Int /\ Fine(db)
  BY ElementIs DEF Data
<1>2. /\ Fine(R) /\ db \subseteq R
      /\ \A q \in R \ db : q.kind = "location" /\ q.name = e.site /\ q.born = run
  <2>1. CASE SiteExists(db, e.site)
    BY <1>1, <2>1
  <2>2. CASE ~ SiteExists(db, e.site)
    <3>1. ~ \E w \in db : w.kind = "location" /\ w.name = e.site
      BY <2>2 DEF SiteExists, Named
    <3>2. PICK n : n.kind = "location" /\ n.name = e.site /\ n.born = run
                   /\ CreateSite(db, e.site, None, run) = db \cup {n}
      BY <1>1, <3>1, CreateSiteIs
    <3> QED BY <1>1, <2>2, <3>2, FineCreateSite
  <2> QED BY <2>1, <2>2
<1>3. PICK r \in (IF found = {} THEN {new} ELSE found) :
        /\ Save(R, r, TagObject(r))
        /\ Stamp((IF Clashes(R, r) THEN {} ELSE {Pk(r)}) \cup (Pks(R) \ Pks(db)))
        /\ Synced(e, Created(e)) /\ UNCHANGED objects_to_delete
  BY DEF CreateDevice
<1>4. stamped' \subseteq stamped \cup {Pk(r)} \cup (Pks(R) \ Pks(db))
  BY <1>3 DEF Stamp
<1>5. r = NewRow(e.kind, e.name, e.site, e.data, run)
      \/ r \in Matching(R, e.kind, e.name, e.site, e.data)
  BY <1>3
<1> HIDE DEF R
<1> QED BY <1>2, <1>3, <1>4, <1>5, ReachedByCreate

LEMMA CreateVlanReaches ==
  ASSUME NEW e, BeforeCore(e), e.action = "create", e.kind = "vlan", ~ Stored(dst, e), CreateVlan(e)
  PROVE  Raise \/ Reached(e)
<1> DEFINE found == Matching(db, "vlan", e.name, e.site, e.data)
           new   == NewRow("vlan", e.name, e.site, e.data, run)
<1> SUFFICES ASSUME ~ Raise PROVE Reached(e)
  OBVIOUS
<1>1. PICK r \in (IF found = {} THEN {new} ELSE found) :
        /\ Save(db, r, TagObject(r)) /\ Stamp({Pk(r)})
        /\ Synced(e, Created(e)) /\ UNCHANGED objects_to_delete
  BY DEF CreateVlan
<1>2. stamped' \subseteq stamped \cup {Pk(r)} \cup (Pks(db) \ Pks(db))
  BY <1>1 DEF Stamp
<1>3. r = NewRow(e.kind, e.name, e.site, e.data, run)
      \/ r \in Matching(db, e.kind, e.name, e.site, e.data)
  BY <1>1
<1>4. PICK R : R = db
  OBVIOUS
<1>5. /\ Fine(R)
      /\ \A q \in R \ db : q.kind = "location" /\ q.name = e.site /\ q.born = run
  BY <1>4, ElementIs
<1> QED BY <1>1, <1>2, <1>3, <1>4, <1>5, ReachedByCreate

LEMMA KindIs == ASSUME NEW x, NEW y PROVE Key(x) = Key(y) <=> x.kind = y.kind /\ x.name = y.name /\ x.site = y.site
BY DEF Key

LEMMA UpdateReaches ==
  ASSUME NEW e, Before(e), e.action = "update", NEW w \in db, Key(w) = Key(e), UpdateRow(e, w)
  PROVE  Reached(e)
<1>1. e \in Element /\ w \in Row /\ db \subseteq Row
  BY ElementIs DEF Before
<1>2. Updated(w, e) \in Row /\ Pk(Updated(w, e)) = Pk(w)
  BY <1>1, UpdatedKeeps
<1>4. Numbered({w}) => Numbered({Updated(w, e)})
  <2>1. w.kind = e.kind /\ (e.kind # "location" => "site_id" \notin e.attrs)
    BY KindIs DEF Before, BeforeCore, RowsInv, CoreInv, Planned
  <2>2. Updated(w, e).kind = w.kind /\ (e.kind # "location" => Updated(w, e).data = w.data)
    BY <1>1, <2>1 DEF Updated, TagObject, Row
  <2> QED BY <2>1, <2>2 DEF Numbered
<1>3. /\ Save(db, w, Updated(w, e)) /\ Stamp({Pk(w)}) /\ diff' = diff \ {e} /\ dst' = dst
      /\ UNCHANGED objects_to_delete
  BY DEF UpdateRow, Synced
<1> HIDE DEF Before, BeforeCore
<1> QED BY <1>2, <1>3, <1>4, ReachedBySave

LEMMA UpdateLocationReaches ==
  ASSUME NEW e, Before(e), e.action = "update", e.kind = "location", UpdateLocation(e)
  PROVE  Raise \/ Reached(e)
<1> SUFFICES ASSUME NEW w \in Named(db, "location", e.name), UpdateRow(e, w) PROVE Reached(e)
  BY DEF UpdateLocation
<1>1. w \in db /\ Key(w) = Key(e)
  BY ElementIs DEF Before, Named, Row, Located, Key
<1> QED BY <1>1, UpdateReaches

(* A device is looked up by its name alone: there is one in its own site,  *)
(* and the lookup has found only one.                                      *)
LEMMA UpdateDeviceReaches ==
  ASSUME NEW e, Before(e), e.action = "update", e.kind = "device", UpdateDevice(e)
  PROVE  Raise \/ Reached(e)
<1>1. CASE Skip(e)
  BY <1>1, ReachedByNone
<1>2. ASSUME Single(Named(db, "device", e.name)), NEW w \in Named(db, "device", e.name),
             UpdateRow(e, w)
      PROVE  Reached(e)
  <2>1. PICK l \in base : Key(l) = Key(e)
    BY DEF Before, BeforeCore, RowsInv, CoreInv, DiffFine, Keys
  <2>2. PICK q \in db : Pk(q) = Pk(l)
    BY DEF Before, BeforeCore, RowsInv, CoreInv, NewRows, Pks
  <2>3. Key(q) = Key(e)
    BY <2>1, <2>2, KeyOfPk
  <2>4. q = w
    BY <1>2, <2>3 DEF Single, Named, Key
  <2> QED BY <1>2, <2>3, <2>4, UpdateReaches
<1> QED BY <1>1, <1>2 DEF UpdateDevice

LEMMA UpdateVlanReaches ==
  ASSUME NEW e, Before(e), e.action = "update", e.kind = "vlan", UpdateVlan(e)
  PROVE  Raise \/ Reached(e)
<1> SUFFICES ASSUME NEW w \in Named(db, "vlan", e.name), w.site = e.site, UpdateRow(e, w)
             PROVE Reached(e)
  BY DEF UpdateVlan
<1>1. w \in db /\ Key(w) = Key(e)
  BY DEF Named, Key
<1> QED BY <1>1, UpdateReaches

(* safe_delete flags or queues a row that may be deleted, or leaves a row  *)
(* that is flagged already as it is.                                       *)
LEMMA ReachedByDelete ==
  ASSUME NEW e, Before(e), e.action = "delete", NEW w \in db, Deletable(Pk(w)), SafeDelete(e, w),
         e.kind = "device" => Single(Named(db, "device", e.name))
  PROVE  Reached(e)
<1>1. e \in Element /\ w \in Row /\ Fine(db)
  BY ElementIs DEF Before
<1>2. /\ SafeDeleted(w) \in Row /\ Pk(SafeDeleted(w)) = Pk(w)
      /\ Numbered({w}) => Numbered({SafeDeleted(w)})
  <2>1. SafeDeleted(w).kind = w.kind /\ SafeDeleted(w).data = w.data
    BY <1>1 DEF SafeDeleted, TagObject, Row
  <2> QED BY <1>1, <2>1, SafeDeletedKeeps DEF Numbered
<1>3. diff' = diff \ {e} /\ dst' = {m \in dst : Uid(m) # Uid(e)}
  BY DEF SafeDelete, Synced, Deleted
<1>4. CASE safe_delete_mode
  <2>1. /\ db' = (db \ {w}) \cup {SafeDeleted(w)} /\ UNCHANGED objects_to_delete
        /\ stamped' = stamped \cup (IF IsFlagged(w) THEN {} ELSE {Pk(w)})
    BY <1>4 DEF SafeDelete, Save, Stamp
  <2>2. Fine(db')
    BY <1>1, <1>2, <2>1, FineSaved
  <2>3. ASSUME NEW r \in db PROVE Spared(r) \/ (~ IsFlagged(r) /\ Deletable(Pk(r)))
    <3>1. CASE r = w /\ IsFlagged(w)
      <4>1. SafeDeleted(w) = w
        BY <3>1 DEF SafeDeleted
      <4> QED BY <2>1, <3>1, <4>1 DEF Spared
    <3>2. CASE r = w /\ ~ IsFlagged(w)
      BY <3>2
    <3>3. CASE r # w
      <4>1. Pk(r) # Pk(w)
        BY <1>1, <3>3 DEF Fine
      <4> QED BY <2>1, <3>3, <4>1 DEF Spared
    <3> QED BY <3>1, <3>2, <3>3
  <2>4. \A q \in db' : Pk(q) \in Pks(db)
    BY <1>2, <2>1 DEF Pks
  <2> QED BY <1>3, <2>1, <2>2, <2>3, <2>4 DEF Reached, Kept
<1>5. CASE ~ safe_delete_mode
  <2>1. objects_to_delete' = objects_to_delete \cup {Pk(w)} /\ UNCHANGED <<db, stamped>>
    BY <1>5 DEF SafeDelete
  <2>2. \A r \in db : Spared(r)
    BY <2>1 DEF Spared
  <2>3. \A q \in db' : Pk(q) \in Pks(db)
    BY <2>1 DEF Pks
  <2> QED BY <1>1, <1>3, <2>1, <2>2, <2>3 DEF Reached, Kept
<1> QED BY <1>4, <1>5

LEMMA DeleteLocationReaches ==
  ASSUME NEW e, Before(e), e.action = "delete", e.kind = "location", DeleteLocation(e)
  PROVE  Raise \/ Reached(e)
<1> SUFFICES ASSUME NEW w \in Named(db, "location", e.name), SafeDelete(e, w) PROVE Reached(e)
  BY DEF DeleteLocation
<1>1. PICK l \in base : Key(l) = Key(e) /\ Due(l)
  BY DEF Before, BeforeCore, RowsInv, CoreInv, DiffFine
<1>2. PICK q \in db : Pk(q) = Pk(l)
  BY DEF Before, BeforeCore, RowsInv, CoreInv, NewRows, Pks
<1>3. Key(w) = Key(e) /\ w \in db /\ w.kind = "location"
  BY ElementIs DEF Before, Named, Row, Located, Key
<1>4. Key(q) = Key(e) /\ q.kind = "location"
  BY <1>1, <1>2, <1>3, KeyOfPk DEF Key
<1>5. q = w
  BY <1>3, <1>4, ElementIs DEF Before, Fine
<1> QED BY <1>1, <1>2, <1>3, <1>5, ReachedByDelete DEF Deletable

LEMMA DeleteDeviceReaches ==
  ASSUME NEW e, Before(e), e.action = "delete", e.kind = "device", DeleteDevice(e)
  PROVE  Raise \/ Reached(e)
<1>1. CASE Skip(e)
  BY <1>1, ReachedByNone
<1>2. ASSUME Single(Named(db, "device", e.name)), NEW w \in Named(db, "device", e.name),
             SafeDelete(e, w)
      PROVE  Reached(e)
  <2>1. PICK l \in base : Key(l) = Key(e) /\ Due(l)
    BY DEF Before, BeforeCore, RowsInv, CoreInv, DiffFine
  <2>2. PICK q \in db : Pk(q) = Pk(l)
    BY DEF Before, BeforeCore, RowsInv, CoreInv, NewRows, Pks
  <2>3. Key(q) = Key(e)
    BY <2>1, <2>2, KeyOfPk
  <2>4. q = w
    BY <1>2, <2>3 DEF Single, Named, Key
  <2> QED BY <1>2, <2>1, <2>2, <2>4, ReachedByDelete DEF Deletable
<1> QED BY <1>1, <1>2 DEF DeleteDevice

(* The row of a VLAN is the one its model was loaded from.                 *)
LEMMA DeleteVlanReaches ==
  ASSUME NEW e, Before(e), e.action = "delete", e.kind = "vlan", DeleteVlan(e)
  PROVE  Raise \/ Reached(e)
<1> SUFFICES ASSUME NEW m \in dst, Uid(m) = Uid(e), NEW w \in db, Pk(w) = m.pk, SafeDelete(e, w)
             PROVE  Reached(e)
  BY DEF DeleteVlan
<1>1. m.pk # None
  BY ElementIs, PkIsPk, NoneAssumption DEF Before
<1>2. PICK l \in base : m.pk = Pk(l) /\ Key(m) = Key(l) /\ ~ Outside(l)
  BY <1>1 DEF Before, BeforeCore, RowsInv, CoreInv, StoreFine, LoadedModel
<1>3. Key(m) = Key(e)
  <2>1. m.kind \in Kinds /\ e.kind = "vlan"
    BY DEF Before, BeforeCore, TypeOK, Model
  <2> QED BY <2>1 DEF Uid, Key
<1>4. PICK k \in base : Key(k) = Key(e) /\ Due(k)
  BY DEF Before, BeforeCore, RowsInv, CoreInv, DiffFine
<1>5. Due(l)
  BY <1>2, <1>3, <1>4 DEF Due
<1> QED BY <1>2, <1>5, ReachedByDelete DEF Deletable

(* Every handler reaches what the invariant lets it reach, raises or stops *)
(* the sync.                                                               *)
LEMMA CreateReaches ==
  ASSUME NEW e, BeforeCore(e), e.action = "create", Create(e)
  PROVE  Raise \/ ObjectNotCreated \/ Reached(e)
<1>0. e.kind \in Kinds
  BY ElementIs DEF Before
<1>1. CASE Stored(dst, e)
  BY <1>1 DEF Create
<1>2. CASE ~ Stored(dst, e) /\ e.kind = "location"
  BY <1>2, CreateLocationReaches DEF Create
<1>3. CASE ~ Stored(dst, e) /\ e.kind = "device"
  BY <1>3, CreateDeviceReaches DEF Create
<1>4. CASE ~ Stored(dst, e) /\ e.kind = "vlan"
  BY <1>4, CreateVlanReaches DEF Create
<1> QED BY <1>0, <1>1, <1>2, <1>3, <1>4 DEF Kinds

LEMMA UpdateOrDeleteReaches ==
  ASSUME NEW e, Before(e),
         \/ e.action = "update" /\ Update(e)
         \/ e.action = "delete" /\ Delete(e)
  PROVE  Raise \/ Reached(e)
<1>0. e.kind \in Kinds
  BY ElementIs DEF Before
<1>1. CASE e.action = "update" /\ Update(e)
  <2>1. CASE e.kind = "location"
    BY <1>1, <2>1, UpdateLocationReaches DEF Update
  <2>2. CASE e.kind = "device"
    BY <1>1, <2>2, UpdateDeviceReaches DEF Update
  <2>3. CASE e.kind = "vlan"
    BY <1>1, <2>3, UpdateVlanReaches DEF Update
  <2> QED BY <1>0, <2>1, <2>2, <2>3 DEF Kinds
<1>2. CASE e.action = "delete" /\ Delete(e)
  <2>1. CASE e.kind = "location"
    BY <1>2, <2>1, DeleteLocationReaches DEF Delete
  <2>2. CASE e.kind = "device"
    BY <1>2, <2>2, DeleteDeviceReaches DEF Delete
  <2>3. CASE e.kind = "vlan"
    BY <1>2, <2>3, DeleteVlanReaches DEF Delete
  <2> QED BY <1>0, <2>1, <2>2, <2>3 DEF Kinds
<1> QED BY <1>1, <1>2

(* Whatever users do, an update or a delete saves one row or none.         *)
LEMMA KeptBySave ==
  ASSUME NEW e, BeforeCore(e), NEW w \in db, NEW n \in Row, Pk(n) = Pk(w),
         Numbered({w}) => Numbered({n}), Save(db, w, n), diff' = diff \ {e}
  PROVE  Kept(e)
<1>1. Fine(db)
  BY ElementIs
<1>2. Fine(db') /\ db' = (db \ {w}) \cup {n}
  BY <1>1, FineSaved DEF Save
<1>3. \A q \in db' : Pk(q) \in Pks(db)
  BY <1>2 DEF Pks
<1> QED BY <1>2, <1>3 DEF Kept

LEMMA KeptByNone == ASSUME NEW e, BeforeCore(e), db' = db, diff' = diff \ {e} PROVE Kept(e)
BY ElementIs DEF Kept, Pks

LEMMA UpdateKept ==
  ASSUME NEW e, BeforeCore(e), e.action = "update", Update(e)
  PROVE  Raise \/ Kept(e)
<1>0. e.kind \in Kinds
  BY ElementIs
<1>1. ASSUME NEW w \in db, w.kind = e.kind, UpdateRow(e, w) PROVE Kept(e)
  <2>1. e \in Element /\ w \in Row
    BY ElementIs
  <2>2. Updated(w, e) \in Row /\ Pk(Updated(w, e)) = Pk(w)
    BY <2>1, UpdatedKeeps
  <2>3. e.kind # "location" => "site_id" \notin e.attrs
    BY DEF BeforeCore, CoreInv, Planned
  <2>4. Updated(w, e).kind = w.kind /\ (e.kind # "location" => Updated(w, e).data = w.data)
    BY <2>1, <2>3 DEF Updated, TagObject, Row
  <2>5. Numbered({w}) => Numbered({Updated(w, e)})
    BY <1>1, <2>4 DEF Numbered
  <2>6. Save(db, w, Updated(w, e)) /\ diff' = diff \ {e}
    BY <1>1 DEF UpdateRow, Synced
  <2> QED BY <2>2, <2>5, <2>6, KeptBySave
<1>2. CASE e.kind = "location"
  <2>1. Raise \/ \E w \in Named(db, "location", e.name) : UpdateRow(e, w)
    BY <1>2 DEF Update, UpdateLocation
  <2> QED BY <1>1, <1>2, <2>1 DEF Named
<1>3. CASE e.kind = "device"
  <2>1. Skip(e) \/ Raise \/ \E w \in Named(db, "device", e.name) : UpdateRow(e, w)
    BY <1>3 DEF Update, UpdateDevice
  <2>2. Skip(e) => Kept(e)
    BY KeptByNone DEF Skip, Synced
  <2> QED BY <1>1, <1>3, <2>1, <2>2 DEF Named
<1>4. CASE e.kind = "vlan"
  <2>1. Raise \/ \E w \in Named(db, "vlan", e.name) : UpdateRow(e, w)
    BY <1>4 DEF Update, UpdateVlan
  <2> QED BY <1>1, <1>4, <2>1 DEF Named
<1> QED BY <1>0, <1>2, <1>3, <1>4 DEF Kinds

LEMMA DeleteKept ==
  ASSUME NEW e, BeforeCore(e), e.action = "delete", Delete(e)
  PROVE  Raise \/ Kept(e)
<1>0. e.kind \in Kinds
  BY ElementIs
<1>1. ASSUME NEW w \in db, SafeDelete(e, w) PROVE Kept(e)
  <2>1. w \in Row /\ diff' = diff \ {e}
    BY <1>1, ElementIs DEF SafeDelete, Synced
  <2>2. SafeDeleted(w).kind = w.kind /\ SafeDeleted(w).data = w.data
    BY <2>1 DEF SafeDeleted, TagObject, Row
  <2>3. /\ SafeDeleted(w) \in Row /\ Pk(SafeDeleted(w)) = Pk(w)
        /\ Numbered({w}) => Numbered({SafeDeleted(w)})
    BY <2>1, <2>2, SafeDeletedKeeps DEF Numbered
  <2>4. Save(db, w, SafeDeleted(w)) \/ db' = db
    BY <1>1 DEF SafeDelete
  <2> QED BY <2>1, <2>3, <2>4, KeptBySave, KeptByNone
<1>2. CASE e.kind = "location"
  <2>1. Raise \/ \E w \in Named(db, "location", e.name) : SafeDelete(e, w)
    BY <1>2 DEF Delete, DeleteLocation
  <2> QED BY <1>1, <2>1 DEF Named
<1>3. CASE e.kind = "device"
  <2>1. Skip(e) \/ Raise \/ \E w \in Named(db, "device", e.name) : SafeDelete(e, w)
    BY <1>3 DEF Delete, DeleteDevice
  <2>2. Skip(e) => Kept(e)
    BY KeptByNone DEF Skip, Synced
  <2> QED BY <1>1, <2>1, <2>2 DEF Named
<1>4. CASE e.kind = "vlan"
  <2>1. Raise \/ \E w \in db : SafeDelete(e, w)
    BY <1>4 DEF Delete, DeleteVlan
  <2> QED BY <1>1, <2>1
<1> QED BY <1>0, <1>2, <1>3, <1>4 DEF Kinds

LEMMA ElementKept ==
  ASSUME TypeOK, CoreInv, SyncElement
  PROVE  Raise \/ ObjectNotCreated \/ (Wrote /\ \E e \in diff : Kept(e))
<1>1. PICK e \in diff : \/ e.action = "create" /\ Create(e)
                        \/ e.action = "update" /\ Update(e)
                        \/ e.action = "delete" /\ Delete(e)
  BY DEF SyncElement
<1>2. BeforeCore(e)
  BY <1>1 DEF BeforeCore, SyncElement
<1>3. Raise \/ ObjectNotCreated \/ Kept(e)
  BY <1>1, <1>2, CreateReaches, UpdateKept, DeleteKept DEF Reached
<1>4. Wrote \/ Raise \/ ObjectNotCreated
  BY SyncElementHandles DEF Handled
<1> QED BY <1>1, <1>3, <1>4

LEMMA ElementReaches ==
  ASSUME TypeOK, RowsInv, SyncElement
  PROVE  Raise \/ ObjectNotCreated \/ (Wrote /\ \E e \in diff : Reached(e))
<1>1. PICK e \in diff : \/ e.action = "create" /\ Create(e)
                        \/ e.action = "update" /\ Update(e)
                        \/ e.action = "delete" /\ Delete(e)
  BY DEF SyncElement
<1>2. BeforeCore(e) /\ Before(e)
  BY <1>1 DEF Before, BeforeCore, RowsInv, SyncElement
<1>3. Raise \/ ObjectNotCreated \/ Reached(e)
  BY <1>1, <1>2, CreateReaches, UpdateOrDeleteReaches
<1>4. Wrote \/ Raise \/ ObjectNotCreated
  BY SyncElementHandles DEF Handled
<1> QED BY <1>1, <1>3, <1>4

-----------------------------------------------------------------------------
(* The load of the target                                                  *)

LEMMA LoadedIsInside ==
  ASSUME NEW R \in SUBSET Row, NEW t, NEW f, NEW L \in Loads(R, t, f), NEW r \in L
  PROVE  r \in R /\ f \in {None, r.site} /\ (t /\ r.kind # "vlan" => r.ssot)
<1>1. r \in InScope(R, t, f)
  BY DEF Loads
<1>2. CASE r \in GetInitialSite(R, t, f)
  BY <1>2 DEF GetInitialSite, Row, Located
<1>3. CASE /\ r \in R
           /\ \E s \in GetInitialSite(R, t, f) : s.name = r.site
           /\ (r.kind = "device" /\ (t => r.ssot)) \/ r.kind = "vlan"
  BY <1>3 DEF GetInitialSite
<1> QED BY <1>1, <1>2, <1>3 DEF InScope

LEMMA Smallest ==
  ASSUME NEW S \in SUBSET Nat, S # {}
  PROVE  \E n \in S : \A m \in S : ~ (m < n)
<1> DEFINE R == {ss \in Nat \X Nat : ss[1] < ss[2]}
<1>1. IsWellFoundedOn(R, Nat)
  BY NatLessThanWellFounded DEF OpToRel
<1>2. PICK n \in S : \A m \in S : ~ (<<m, n>> \in R)
  <2> HIDE DEF R
  <2> QED BY <1>1, WFMin
<1>3. ASSUME NEW m \in S PROVE ~ (m < n)
  BY <1>2
<1> QED BY <1>3

LEMMA UidIs ==
  ASSUME NEW x, NEW y
  PROVE  /\ Uid(x) = Uid(y) => /\ x.kind = y.kind /\ x.name = y.name
                               /\ x.kind = "vlan" => x.site = y.site
         /\ Key(x) = Key(y) => Uid(x) = Uid(y)
<1>1. ASSUME Uid(x) = Uid(y) PROVE x.kind = y.kind /\ x.name = y.name
  <2>1. Uid(x)[1] = x.kind /\ Uid(x)[2] = x.name /\ Uid(y)[1] = y.kind /\ Uid(y)[2] = y.name
    BY DEF Uid
  <2> QED BY <1>1, <2>1
<1>2. ASSUME Uid(x) = Uid(y), x.kind = "vlan" PROVE x.site = y.site
  <2>1. y.kind = "vlan"
    BY <1>1, <1>2
  <2> QED BY <1>2, <2>1 DEF Uid
<1>3. Key(x) = Key(y) => Uid(x) = Uid(y)
  BY DEF Key, Uid
<1> QED BY <1>1, <1>2, <1>3

(* A load without a filter leaves out no row but for another one with its  *)
(* unique id: rows in order have a first one.                              *)
LEMMA LoadsAll ==
  ASSUME NEW R \in SUBSET Row, HasSites(R), Numbered(R), NEW L \in Loads(R, FALSE, None),
         NEW r \in R
  PROVE  \E q \in L : Uid(q) = Uid(r)
<1> DEFINE scope == InScope(R, FALSE, None)
           same  == {q \in scope : Uid(q) = Uid(r)}
           first == {q \in scope : \A p \in scope : Uid(p) = Uid(q) => ~ Earlier(p, q)}
<1>1. r \in scope
  <2>1. PICK s \in R : s.kind = "location" /\ s.name = r.site
    BY DEF HasSites, SiteExists, Named
  <2>2. s \in GetInitialSite(R, FALSE, None)
    BY <2>1 DEF GetInitialSite
  <2>3. r.kind = "device" \/ r.kind = "vlan" \/ r \in GetInitialSite(R, FALSE, None)
    BY DEF Row, Kinds, GetInitialSite
  <2> QED BY <2>1, <2>2, <2>3 DEF InScope
<1>2. \A q \in scope : q \in R /\ q \in Row
  BY DEF InScope, GetInitialSite
<1>3. \A q \in same : q.kind = r.kind /\ (r.kind = "vlan" => q.site = r.site)
  BY UidIs
<1>4. \E q \in same : \A p \in same : ~ Earlier(p, q)
  <2>1. CASE r.kind = "vlan"
    <3> DEFINE vids == {q.data : q \in same}
    <3>1. vids \in SUBSET Nat /\ vids # {}
      BY <1>1, <1>2, <1>3, <2>1, VidsAssumption DEF Numbered
    <3>2. PICK n \in vids : \A m \in vids : ~ (m < n)
      <4> HIDE DEF vids
      <4> QED BY <3>1, Smallest
    <3>3. PICK q \in same : q.data = n
      BY <3>2
    <3>4. ASSUME NEW p \in same PROVE ~ Earlier(p, q)
      <4>1. p.site = q.site /\ q.site \in Nat
        BY <1>2, <1>3, <2>1, NamesAssumption DEF Row
      <4>2. ~ (p.data < q.data)
        BY <3>2, <3>3
      <4> QED BY <4>1, <4>2 DEF Earlier
    <3> QED BY <3>4
  <2>2. CASE r.kind # "vlan"
    <3> DEFINE places == {q.site : q \in same}
    <3>1. places \in SUBSET Nat /\ places # {}
      BY <1>1, <1>2, NamesAssumption DEF Row
    <3>2. PICK n \in places : \A m \in places : ~ (m < n)
      <4> HIDE DEF places
      <4> QED BY <3>1, Smallest
    <3>3. PICK q \in same : q.site = n
      BY <3>2
    <3>4. ASSUME NEW p \in same PROVE ~ Earlier(p, q)
      BY <1>3, <2>2, <3>2, <3>3 DEF Earlier
    <3> QED BY <3>4
  <2> QED BY <2>1, <2>2
<1>5. PICK q \in same : \A p \in same : ~ Earlier(p, q)
  BY <1>4
<1>6. q \in first
  BY <1>5
<1>7. \E p \in L : Uid(p) = Uid(q)
  BY <1>6 DEF Loads
<1> QED BY <1>7

-----------------------------------------------------------------------------
(* The invariant holds, whatever users do                                  *)

LEMMA InitCore == Init => CoreInv
<1> SUFFICES ASSUME Init PROVE CoreInv
  OBVIOUS
<1>1. Fine(db) /\ \A r \in db : r.born \leq 0
  BY InitialRowsAssumption DEF Init, IsDatabase, Fine
<1>2. RowsFine
  BY <1>1, BoundsAssumption DEF RowsFine, Init, Running
<1>3. IsSnapshot(src) /\ NotYet /\ Planned
  BY DEF Init, IsSnapshot, Numbered, NotYet, Planned
<1> QED BY <1>2, <1>3 DEF CoreInv

LEMMA StartJobKeepsCore == ASSUME TypeOK, CoreInv, StartJob PROVE CoreInv'
<1>1. /\ pc = "idle" /\ pc' = "source" /\ run' = run + 1 /\ run' \leq MaxRuns
      /\ aux_leftover' = objects_to_delete /\ aux_edits' = edits
      /\ UNCHANGED <<db, base, stamped, objects_to_delete, src, dst, diff, edits>>
      /\ db = base /\ stamped = {} /\ diff = {} /\ dst = {}
      /\ run \in Nat /\ MaxRuns \in Nat /\ edits \in Nat
  BY BoundsAssumption DEF StartJob, tables, process, CoreInv, NotYet, TypeOK
<1>2. \A r \in base : r.born \in Int /\ (r.born \leq run \/ (MaxRuns < r.born /\ r.born \leq MaxRuns + edits))
  BY DEF CoreInv, RowsFine, Fine, Row
<1>3. \A r \in base : r.born # run' /\ (r.born \leq run' \/ (MaxRuns < r.born /\ r.born \leq MaxRuns + edits))
  BY <1>1, <1>2
<1>4. RowsFine'
  BY <1>1, <1>3 DEF CoreInv, RowsFine
<1>5. IsSnapshot(src)' /\ NotYet' /\ Planned'
  BY <1>1 DEF CoreInv, NotYet, Planned
<1> QED BY <1>4, <1>5 DEF CoreInv

LEMMA EndKeepsCore ==
  ASSUME TypeOK, CoreInv, Forget, db' = base', base' = base \/ base' = db, UNCHANGED <<run, edits>>
  PROVE  CoreInv'
<1>1. /\ pc' = "idle" /\ stamped' = {} /\ diff' = {} /\ src' = {} /\ dst' = {} /\ aux_edits' = 0
  BY DEF Forget
<1>2. RowsFine'
  BY <1>1 DEF CoreInv, RowsFine, Running, TypeOK
<1>3. IsSnapshot(src)' /\ NotYet' /\ Planned'
  BY <1>1 DEF IsSnapshot, Numbered, NotYet, Planned
<1> QED BY <1>2, <1>3 DEF CoreInv

LEMMA LoadsKeepCore == ASSUME TypeOK, CoreInv, LoadSource \/ LoadTarget PROVE CoreInv'
<1>1. /\ pc \in {"source", "target"} /\ pc' \in {"target", "diff"}
      /\ pc' = "target" => dst' = dst /\ pc = "source"
      /\ src' = src \/ src' \in Snapshots
      /\ UNCHANGED <<db, base, stamped, run, objects_to_delete, aux_leftover, diff, edits, aux_edits>>
      /\ db = base /\ stamped = {} /\ diff = {} /\ dst = {} /\ objects_to_delete = aux_leftover
  BY DEF LoadSource, LoadTarget, tables, process, CoreInv, NotYet
<1>2. RowsFine'
  BY <1>1 DEF CoreInv, RowsFine, Running
<1>3. IsSnapshot(src)'
  BY <1>1, SnapshotsAssumption DEF CoreInv
<1>4. NotYet' /\ Planned'
  BY <1>1 DEF NotYet, Planned
<1> QED BY <1>2, <1>3, <1>4 DEF CoreInv

LEMMA CalculateDiffKeepsCore == ASSUME TypeOK, CoreInv, CalculateDiff PROVE CoreInv'
<1>1. /\ pc = "diff" /\ pc' \in {"sync", "done"} /\ diff' = DiffFrom(src, dst)
      /\ UNCHANGED <<db, base, run, edits, aux_edits, src>> /\ db = base
  BY DEF CalculateDiff, tables, CoreInv, NotYet
<1>2. \A x, a, attrs : /\ ToElement(x, a, attrs).kind = x.kind
                       /\ ToElement(x, a, attrs).action = a
                       /\ ToElement(x, a, attrs).attrs = attrs
  BY DEF ToElement
<1>3. ASSUME NEW e \in diff'
      PROVE  /\ e.action = "create" => \E x \in src : e = ToElement(x, "create", {})
             /\ e.action = "update" /\ e.kind # "location" => "site_id" \notin e.attrs
  <2>1. CASE \E x \in src, y \in dst : e = ToElement(x, "update", Changed(x, y))
    <3>1. PICK x \in src, y \in dst : e = ToElement(x, "update", Changed(x, y))
      BY <2>1
    <3>2. x.kind \in Kinds /\ e.kind = x.kind /\ e.attrs = Changed(x, y) /\ e.action = "update"
      BY <1>2, <3>1 DEF TypeOK, Item
    <3>3. x.kind # "location" => "site_id" \notin Changed(x, y)
      BY <3>2 DEF Changed, Kinds
    <3> QED BY <3>2, <3>3
  <2>2. \/ \E x \in src : e = ToElement(x, "create", {})
        \/ \E y \in dst : e = ToElement(y, "delete", {})
        \/ \E x \in src, y \in dst : e = ToElement(x, "update", Changed(x, y))
    BY <1>1 DEF DiffFrom
  <2> QED BY <1>2, <2>1, <2>2
<1>4. Planned'
  BY <1>1, <1>3 DEF Planned, CoreInv, RowsFine, Running
<1>5. RowsFine' /\ IsSnapshot(src)' /\ NotYet'
  BY <1>1 DEF CoreInv, RowsFine, Running, NotYet
<1> QED BY <1>4, <1>5 DEF CoreInv

(* The sync stops early, or is over, or sync_complete deletes.             *)
LEMMA LessKeepsCore ==
  ASSUME TypeOK, CoreInv, pc \notin {"idle", "source", "target", "diff"},
         pc' \notin {"idle", "source", "target", "diff"}, db' \subseteq db,
         UNCHANGED <<base, run, edits, aux_edits, src, diff>>
  PROVE  CoreInv'
<1>1. RowsFine'
  BY FineFewer DEF CoreInv, RowsFine, Running
<1>2. IsSnapshot(src)' /\ NotYet' /\ Planned'
  BY DEF CoreInv, NotYet, Planned
<1> QED BY <1>1, <1>2 DEF CoreInv

LEMMA CreatesApart ==
  ASSUME CoreInv, NEW e \in diff, NEW f \in diff, e.action = "create", f.action = "create",
         Key(e) = Key(f)
  PROVE  e = f
<1>1. PICK x \in src : e = ToElement(x, "create", {})
  BY DEF CoreInv, Planned
<1>2. PICK y \in src : f = ToElement(y, "create", {})
  BY DEF CoreInv, Planned
<1>3. Key(x) = Key(y)
  BY <1>1, <1>2 DEF Key, ToElement
<1>4. x = y
  BY <1>3, UidIs DEF CoreInv, IsSnapshot
<1> QED BY <1>1, <1>2, <1>4

LEMMA KeptKeepsCore ==
  ASSUME TypeOK, CoreInv, pc = "sync", Wrote, NEW e \in diff, Kept(e)
  PROVE  CoreInv'
<1>1. /\ UNCHANGED <<base, run, src, edits, aux_edits>> /\ pc' = "sync" /\ diff' = diff \ {e}
      /\ Fine(db')
  BY DEF Wrote, Kept
<1>2. ASSUME NEW q \in db'
      PROVE  \/ \E p \in db : Key(p) = Key(q) /\ p.born = q.born
             \/ /\ q.born = run /\ e.action = "create"
                /\ q.kind = "location" \/ Key(q) = Key(e)
  <2>1. CASE Pk(q) \in Pks(db)
    BY <2>1, KeyOfPk DEF Pks
  <2> QED BY <2>1 DEF Kept
<1>3. RowsFine'
  BY <1>1, <1>2 DEF CoreInv, RowsFine, Running, TypeOK
<1>4. Planned'
  <2> SUFFICES ASSUME NEW f \in diff', f.action = "create", f.kind # "location",
                      NEW q \in db', Key(q) = Key(f), q.born = run
               PROVE  FALSE
    BY <1>1 DEF CoreInv, Planned
  <2>1. ASSUME NEW p \in db, Key(p) = Key(q), p.born = q.born PROVE FALSE
    BY <1>1, <2>1 DEF CoreInv, Planned
  <2>2. e.action = "create" /\ Key(e) = Key(f)
    BY <1>2, <2>1, KindIs
  <2> QED BY <1>1, <2>2, CreatesApart
<1>5. IsSnapshot(src)' /\ NotYet'
  BY <1>1 DEF CoreInv, NotYet
<1> QED BY <1>3, <1>4, <1>5 DEF CoreInv

(* A user deletes a row, edits one or adds one that bears a new stamp.     *)
LEMMA StampIs ==
  TypeOK => /\ UserStamp \in Int /\ MaxRuns < UserStamp /\ UserStamp \leq MaxRuns + (edits + 1)
            /\ edits \in Nat /\ MaxRuns \in Nat
BY BoundsAssumption DEF UserStamp, TypeOK

(* What a user does to both databases alike keeps the invariant.           *)
LEMMA UserKeepsCore ==
  ASSUME TypeOK, CoreInv, edits' = edits + 1, Fine(db'), Fine(base'), db = base => db' = base',
         \A q \in db'   : q.born = UserStamp \/ \E p \in db   : Key(p) = Key(q) /\ p.born = q.born,
         \A q \in base' : q.born = UserStamp \/ \E p \in base : Key(p) = Key(q) /\ p.born = q.born,
         UNCHANGED <<stamped, process, locals, run, pc>>
  PROVE  CoreInv'
<1>1. UNCHANGED <<stamped, objects_to_delete, src, dst, diff, aux_leftover, aux_edits, run, pc>>
  BY DEF process, locals
<1>2. /\ UserStamp \in Int /\ MaxRuns < UserStamp /\ UserStamp \leq MaxRuns + edits'
      /\ edits \in Nat /\ MaxRuns \in Nat /\ run \in Nat /\ aux_edits \in Nat
      /\ run \leq MaxRuns /\ aux_edits \leq edits
  BY StampIs DEF TypeOK, CoreInv, RowsFine
<1>3. \A q \in db \cup base : q.born \in Int /\ (q.born \leq run \/ (MaxRuns < q.born /\ q.born \leq MaxRuns + edits))
  BY DEF CoreInv, RowsFine, Fine, Row
<1>4. \A q \in db' \cup base' : q.born \leq run' \/ (MaxRuns < q.born /\ q.born \leq MaxRuns + edits')
  <2>1. MaxRuns + edits \leq MaxRuns + edits' /\ \A b \in Int : b \leq MaxRuns + edits => b \leq MaxRuns + edits'
    BY <1>2
  <2>2. ASSUME NEW q \in db' \cup base' PROVE q.born = UserStamp \/ \E p \in db \cup base : p.born = q.born
    OBVIOUS
  <2> QED BY <1>1, <1>2, <1>3, <2>1, <2>2
<1>5. UserStamp # run
  BY <1>2
<1>6. Running' => \A q \in base' : q.born # run'
  BY <1>1, <1>5 DEF CoreInv, RowsFine, Running
<1>7. RowsFine'
  BY <1>1, <1>2, <1>4, <1>6 DEF RowsFine
<1>8. Planned'
  BY <1>1, <1>5 DEF CoreInv, Planned
<1>9. IsSnapshot(src)' /\ NotYet'
  BY <1>1 DEF CoreInv, NotYet
<1> QED BY <1>7, <1>8, <1>9 DEF CoreInv

LEMMA UserDeletesKeepsCore == ASSUME TypeOK, CoreInv, UserDeletes PROVE CoreInv'
<1>1. PICK r \in Unlocked : /\ db'   = {q \in db : Pk(q) # Pk(r)}
                            /\ base' = {q \in base : Pk(q) # Pk(r)}
  BY DEF UserDeletes
<1>2. Fine(db') /\ Fine(base')
  BY <1>1, FineFewer DEF CoreInv, RowsFine
<1>3. edits' = edits + 1 /\ UNCHANGED <<stamped, process, locals, run, pc>>
  BY DEF UserDeletes
<1> QED BY <1>1, <1>2, <1>3, UserKeepsCore

LEMMA UserEditsKeepsCore == ASSUME TypeOK, CoreInv, UserEdits PROVE CoreInv'
<1>0. PICK r \in Unlocked :
        \E q \in {[r EXCEPT !.status = "Active"], [r EXCEPT !.ssot = ~ @]} :
          db' = (db \ {r}) \cup {q} /\ base' = (base \ {r}) \cup {q}
  BY DEF UserEdits
<1>1. PICK q \in {[r EXCEPT !.status = "Active"], [r EXCEPT !.ssot = ~ @]} :
        db' = (db \ {r}) \cup {q} /\ base' = (base \ {r}) \cup {q}
  BY <1>0
<1>2. r \in db /\ r \in base /\ r \in Row
  BY DEF Unlocked, TypeOK
<1>3. /\ q \in Row /\ Pk(q) = Pk(r) /\ Key(q) = Key(r) /\ q.born = r.born
      /\ q.kind = r.kind /\ q.data = r.data
  BY <1>1, <1>2 DEF Row, Pk, Key, Statuses, Located
<1>4. Fine(db) /\ Fine(base) /\ (Numbered({r}) => Numbered({q}))
  BY <1>3 DEF CoreInv, RowsFine, Numbered
<1>5. Fine(db') /\ Fine(base')
  BY <1>1, <1>2, <1>3, <1>4, FineSaved
<1>6. edits' = edits + 1 /\ UNCHANGED <<stamped, process, locals, run, pc>>
  BY DEF UserEdits
<1>7. /\ \A p \in db'   : \E o \in db   : Key(o) = Key(p) /\ o.born = p.born
      /\ \A p \in base' : \E o \in base : Key(o) = Key(p) /\ o.born = p.born
  BY <1>1, <1>2, <1>3
<1> QED BY <1>1, <1>5, <1>6, <1>7, UserKeepsCore

LEMMA UserAddsKeepsCore == ASSUME TypeOK, CoreInv, UserAdds PROVE CoreInv'
<1>0. PICK S \in Snapshots : \E x \in S :
        LET r == NewRow(x.kind, x.name, x.site, x.data, UserStamp)
        IN  /\ r.kind = "location" => ~ SiteExists(db \cup base, r.name)
            /\ db' = db \cup {r} /\ base' = base \cup {r}
  BY DEF UserAdds
<1>1. PICK x \in S :
        LET r == NewRow(x.kind, x.name, x.site, x.data, UserStamp)
        IN  /\ r.kind = "location" => ~ SiteExists(db \cup base, r.name)
            /\ db' = db \cup {r} /\ base' = base \cup {r}
  BY <1>0
<1> DEFINE n == NewRow(x.kind, x.name, x.site, x.data, UserStamp)
<1>2. n \in Row /\ n.kind = x.kind /\ n.data = x.data /\ n.born = UserStamp
  <2>1. x \in Item /\ UserStamp \in Int
    BY SnapshotsHaveTypes, StampIs
  <2> QED BY <2>1 DEF NewRow, Row, Item, Located, Kinds, Statuses
<1>3. Numbered({n})
  BY <1>2, SnapshotsAssumption DEF IsSnapshot, Numbered
<1>4. \A q \in db \cup base : Pk(q) # Pk(n)
  <2>1. \A q \in db \cup base : q.born \in Int /\ (q.born \leq run \/ q.born \leq MaxRuns + edits)
    BY DEF CoreInv, RowsFine, Fine, Row
  <2>2. run \in Nat /\ run \leq MaxRuns /\ edits \in Nat /\ MaxRuns \in Nat /\ UserStamp = MaxRuns + edits + 1
    BY StampIs DEF UserStamp, TypeOK, CoreInv, RowsFine
  <2>3. \A q \in db \cup base : q.born # UserStamp
    BY <2>1, <2>2
  <2> QED BY <1>2, <2>3, KeyOfPk
<1>5. n.kind = "location" => ~ SiteExists(db, n.name) /\ ~ SiteExists(base, n.name)
  BY <1>1 DEF SiteExists, Named
<1>6. db' = db \cup {n} /\ base' = base \cup {n}
  BY <1>1
<1> HIDE DEF n
<1>7. Fine(db) /\ Fine(base) /\ Pk(n) \notin Pks(db) /\ Pk(n) \notin Pks(base)
  BY <1>4 DEF CoreInv, RowsFine, Pks
<1>8. Fine(db') /\ Fine(base')
  BY <1>2, <1>3, <1>5, <1>6, <1>7, FineAdded
<1>9. edits' = edits + 1 /\ UNCHANGED <<stamped, process, locals, run, pc>>
  BY DEF UserAdds
<1> QED BY <1>2, <1>6, <1>8, <1>9, UserKeepsCore

(* An exception, a worker that dies, or the last action of a job.          *)
Ends == ClientNotReady \/ Raise \/ WorkerRestart \/ FinishJob

LEMMA NextCore == ASSUME TypeOK, CoreInv, [Next]_vars PROVE CoreInv'
<1>1. CASE Ends
  <2>1. db' = base' /\ (base' = base \/ base' = db) /\ UNCHANGED <<run, edits>> /\ Forget
    BY <1>1 DEF Ends, ClientNotReady, Raise, WorkerRestart, FinishJob
  <2> QED BY <2>1, EndKeepsCore
<1>2. CASE pc = "sync" /\ (ObjectNotCreated \/ SyncComplete)
  <2>1. pc' \in {"done", "vlan"} /\ UNCHANGED <<db, base, run, edits, aux_edits, src, diff>>
    BY <1>2 DEF ObjectNotCreated, SyncComplete, tables, locals
  <2> QED BY <1>2, <2>1, LessKeepsCore
<1>3. CASE DeleteGroup
  <2>1. /\ pc \in {"vlan", "device", "location"} /\ pc' \in {"device", "location", "done"}
        /\ db' \subseteq db /\ UNCHANGED <<base, run, edits, aux_edits, src, diff>>
    BY <1>3 DEF DeleteGroup, Cleanup, locals
  <2> QED BY <2>1, LessKeepsCore
<1>4. CASE SyncElement
  <2>1. pc = "sync"
    BY <1>4 DEF SyncElement
  <2>2. Raise \/ ObjectNotCreated \/ (Wrote /\ \E e \in diff : Kept(e))
    BY <1>4, ElementKept
  <2> QED BY <1>1, <1>2, <2>1, <2>2, KeptKeepsCore DEF Ends
<1>5. CASE UNCHANGED vars
  <2>1. UNCHANGED <<db, base, stamped, run, edits, aux_edits, objects_to_delete, aux_leftover,
                    src, dst, diff, pc>>
    BY <1>5 DEF vars, tables, process, locals
  <2> QED BY <2>1 DEF CoreInv, RowsFine, Running, NotYet, Planned
<1>6. SyncComplete => pc = "sync"
  BY DEF SyncComplete
<1> QED
  BY <1>1, <1>2, <1>3, <1>4, <1>5, <1>6, StartJobKeepsCore, LoadsKeepCore, CalculateDiffKeepsCore,
     UserDeletesKeepsCore, UserEditsKeepsCore, UserAddsKeepsCore
  DEF Next, JobStep, SourceFails, Ends

-----------------------------------------------------------------------------
(* The invariant holds as long as no user edits                            *)

(* Where the job has written and planned nothing yet.                      *)
Clean == /\ FlaggedStayUntouched /\ ScopeRespected /\ SourcedRowsSurvive
         /\ UnfilteredRunAddsNoDuplicate /\ DiffFine /\ NewRows

LEMMA CleanNext ==
  ASSUME db' = base', stamped' = {}, diff' = {}
  PROVE  Clean'
<1>1. FlaggedStayUntouched' /\ ScopeRespected' /\ SourcedRowsSurvive'
  BY DEF FlaggedStayUntouched, ScopeRespected, SourcedRowsSurvive, Flagged, Pks
<1>2. UnfilteredRunAddsNoDuplicate'
  BY DEF UnfilteredRunAddsNoDuplicate, OneRowPer
<1>3. DiffFine' /\ NewRows'
  BY DEF DiffFine, NewRows, Pks
<1> QED BY <1>1, <1>2, <1>3 DEF Clean

(* The job begins, loads its source, then its target.                      *)
LEMMA BeginningKeepsRows ==
  ASSUME TypeOK, CoreInv, CoreInv', Alone', StartJob \/ LoadSource
  PROVE  RowsInv'
<1>1. /\ pc' \in {"source", "target"} /\ pc \in {"idle", "source"}
      /\ UNCHANGED <<db, base, stamped, dst, diff>>
      /\ aux_leftover' = objects_to_delete'
  BY DEF StartJob, LoadSource, tables, process, CoreInv, NotYet
<1>2. db = base /\ stamped = {} /\ diff = {} /\ dst = {}
  BY <1>1 DEF CoreInv, NotYet
<1>3. Clean'
  BY <1>1, <1>2, CleanNext
<1>4. StoreFine' /\ QueueFine' /\ NoTwin'
  BY <1>1, <1>2 DEF StoreFine, QueueFine, NoTwin
<1> QED BY <1>3, <1>4 DEF RowsInv, Clean

LEMMA LoadTargetKeepsRows ==
  ASSUME TypeOK, ReferentialIntegrity, CoreInv, CoreInv', Alone', LoadTarget
  PROVE  RowsInv'
<1>1. /\ pc = "target" /\ pc' = "diff"
      /\ UNCHANGED <<db, base, stamped, run, objects_to_delete, aux_leftover, src, diff, job>>
      /\ db = base /\ stamped = {} /\ diff = {} /\ objects_to_delete = aux_leftover
  BY DEF LoadTarget, tables, CoreInv, NotYet
<1>2. PICK L \in Loads(db, job.tagged_only, job.site_filter) : dst' = {ToModel(r) : r \in L}
  BY DEF LoadTarget
<1>3. Clean'
  BY <1>1, CleanNext
<1>6. ASSUME NEW m \in dst' PROVE LoadedModel(m)'
  <2>1. PICK r \in L : m = ToModel(r)
    BY <1>2
  <2>2. /\ r \in db /\ job.site_filter \in {None, r.site}
        /\ job.tagged_only /\ r.kind # "vlan" => r.ssot
    BY LoadedIsInside DEF TypeOK
  <2>3. m.pk = Pk(r) /\ Key(m) = Key(r)
    BY <2>1 DEF ToModel, Key
  <2>4. r \in base' /\ ~ Outside(r)'
    BY <1>1, <2>2 DEF Outside
  <2> QED BY <2>3, <2>4 DEF LoadedModel
<1>7. NoTwin'
  <2> SUFFICES ASSUME Unfiltered, NEW l \in base, l.kind # "location" PROVE Stored(dst', l)
    BY <1>1 DEF NoTwin, Unfiltered
  <2>1. job.tagged_only = FALSE /\ job.site_filter = None
    BY <1>1 DEF Unfiltered, TypeOK, Option
  <2> PICK D : D = db
    OBVIOUS
  <2>2. /\ D \in SUBSET Row /\ HasSites(D) /\ Numbered(D) /\ l \in D
        /\ L \in Loads(D, FALSE, None)
    BY <1>1, <2>1 DEF TypeOK, ReferentialIntegrity, CoreInv, RowsFine, Fine
  <2>3. \E q \in L : Uid(q) = Uid(l)
    <3>1. \A R \in SUBSET Row : HasSites(R) /\ Numbered(R) =>
            \A M \in Loads(R, FALSE, None), r \in R : \E q \in M : Uid(q) = Uid(r)
      BY LoadsAll
    <3>2. \A M \in Loads(D, FALSE, None), r \in D : \E q \in M : Uid(q) = Uid(r)
      BY <2>2, <3>1
    <3>3. \A r \in D : \E q \in L : Uid(q) = Uid(r)
      BY <2>2, <3>2
    <3> QED BY <2>2, <3>3
  <2>5. PICK q \in L : Uid(q) = Uid(l)
    BY <2>3
  <2>4. ToModel(q) \in dst' /\ Uid(ToModel(q)) = Uid(q)
    BY <1>2 DEF ToModel, Uid
  <2> QED BY <2>5, <2>4 DEF Stored
<1>8. StoreFine' /\ QueueFine'
  BY <1>1, <1>6 DEF StoreFine, QueueFine
<1> QED BY <1>3, <1>7, <1>8 DEF RowsInv, Clean

LEMMA CalculateDiffKeepsRows ==
  ASSUME TypeOK, RowsInv, CoreInv', Alone', CalculateDiff
  PROVE  RowsInv'
<1>1. /\ pc = "diff" /\ pc' \in {"sync", "done"} /\ diff' = DiffFrom(src, dst)
      /\ UNCHANGED <<db, base, stamped, run, objects_to_delete, aux_leftover, src, dst, job>>
      /\ db = base /\ stamped = {} /\ objects_to_delete = aux_leftover
  BY DEF CalculateDiff, tables, process, RowsInv, CoreInv, NotYet
<1>2. \A m \in dst : LoadedModel(m)
  BY <1>1 DEF RowsInv, StoreFine
<1>3. \A x, a, attrs : /\ Key(ToElement(x, a, attrs)) = Key(x)
                       /\ ToElement(x, a, attrs).kind = x.kind
                       /\ ToElement(x, a, attrs).action = a
                       /\ ToElement(x, a, attrs).attrs = attrs
  BY DEF ToElement, Key
<1>4. ASSUME NEW e \in diff'
      PROVE  /\ e.action = "update" => Key(e) \in Keys(src) /\ Key(e) \in Keys(base)
             /\ e.action = "delete" => \E l \in base : Key(l) = Key(e) /\ Due(l)
  <2>1. CASE \E x \in src : e = ToElement(x, "create", {})
    BY <1>3, <2>1
  <2>2. CASE \E y \in dst : e = ToElement(y, "delete", {}) /\ Key(y) \notin Keys(src)
    <3>1. PICK y \in dst : e = ToElement(y, "delete", {}) /\ Key(y) \notin Keys(src)
      BY <2>2
    <3>2. PICK l \in base : Key(y) = Key(l) /\ ~ Outside(l)
      BY <1>2 DEF LoadedModel
    <3>3. Key(l) = Key(e) /\ Due(l) /\ e.action = "delete"
      BY <1>3, <3>1, <3>2 DEF Due
    <3> QED BY <3>3
  <2>3. CASE \E x \in src, y \in dst : e = ToElement(x, "update", Changed(x, y)) /\ Key(x) = Key(y)
    <3>1. PICK x \in src, y \in dst : e = ToElement(x, "update", Changed(x, y)) /\ Key(x) = Key(y)
      BY <2>3
    <3>2. PICK l \in base : Key(y) = Key(l)
      BY <1>2 DEF LoadedModel
    <3>3. Key(e) \in Keys(src) /\ Key(e) \in Keys(base) /\ e.action = "update"
      BY <1>3, <3>1, <3>2 DEF Keys
    <3> QED BY <3>3
  <2>4. \/ \E x \in src : e = ToElement(x, "create", {})
        \/ \E y \in dst : e = ToElement(y, "delete", {}) /\ Key(y) \notin Keys(src)
        \/ \E x \in src, y \in dst : e = ToElement(x, "update", Changed(x, y)) /\ Key(x) = Key(y)
    BY <1>1 DEF DiffFrom
  <2> QED BY <2>1, <2>2, <2>3, <2>4
<1>5. DiffFine'
  BY <1>1, <1>4 DEF DiffFine, Due, Outside
<1>6. NewRows'
  BY <1>1 DEF NewRows, Pks
<1>7. FlaggedStayUntouched' /\ ScopeRespected' /\ SourcedRowsSurvive'
  BY <1>1 DEF FlaggedStayUntouched, ScopeRespected, SourcedRowsSurvive, Flagged, Pks
<1>8. UnfilteredRunAddsNoDuplicate'
  BY <1>1 DEF UnfilteredRunAddsNoDuplicate, OneRowPer
<1>9. NoTwin'
  <2> SUFFICES ASSUME Unfiltered, NEW e \in diff', e.kind # "location", Key(e) \in Keys(base)
               PROVE  Stored(dst, e)
    BY <1>1 DEF NoTwin, Unfiltered, Stored
  <2>1. PICK l \in base : Key(l) = Key(e)
    BY DEF Keys
  <2>2. Stored(dst, l) /\ Uid(l) = Uid(e)
    BY <1>1, <2>1, UidIs DEF RowsInv, NoTwin, Key
  <2> QED BY <2>2 DEF Stored
<1>10. StoreFine' /\ QueueFine'
  BY <1>1, <1>2 DEF StoreFine, QueueFine, LoadedModel, Outside
<1> QED BY <1>5, <1>6, <1>7, <1>8, <1>9, <1>10 DEF RowsInv

(* The sync stops early, or is over.                                       *)
LEMMA SyncEndsKeepsRows ==
  ASSUME TypeOK, RowsInv, CoreInv', Alone', pc \in {"sync", pc'}, pc' \in {"done", "vlan", pc},
         UNCHANGED <<db, base, stamped, run, objects_to_delete, aux_leftover, src, dst, diff, job>>
  PROVE  RowsInv'
<1>1. NoTwin'
  BY DEF RowsInv, NoTwin, Unfiltered
<1>2. StoreFine' /\ QueueFine'
  BY DEF RowsInv, StoreFine, QueueFine, LoadedModel, Due, Outside
<1>3. DiffFine' /\ NewRows'
  BY DEF RowsInv, DiffFine, NewRows, Due, Outside
<1>4. FlaggedStayUntouched' /\ ScopeRespected' /\ SourcedRowsSurvive'
  BY DEF RowsInv, FlaggedStayUntouched, ScopeRespected, SourcedRowsSurvive, Flagged
<1>5. UnfilteredRunAddsNoDuplicate'
  BY DEF RowsInv, UnfilteredRunAddsNoDuplicate, OneRowPer, Unfiltered
<1> QED BY <1>1, <1>2, <1>3, <1>4, <1>5 DEF RowsInv

(* sync_complete deletes what is queued, and that may be deleted.          *)
LEMMA DeleteGroupKeepsRows ==
  ASSUME TypeOK, SafeInv, RowsInv, CoreInv', Alone', DeleteGroup
  PROVE  RowsInv'
<1>1. /\ pc \in {"vlan", "device", "location"} /\ pc' \in {"device", "location", "done"}
      /\ UNCHANGED <<base, stamped, run, aux_leftover, src, dst, diff, job>>
      /\ objects_to_delete' \subseteq objects_to_delete /\ db' \subseteq db
      /\ \A r \in db \ db' : ~ safe_delete_mode /\ Pk(r) \in objects_to_delete
  BY DEF DeleteGroup, Cleanup, locals
<1>2. safe_delete_mode = job.safe
  BY <1>1 DEF SafeInv
<1>3. ASSUME aux_leftover = {}, NEW r \in db, r \notin db'
      PROVE  \E l \in base : Pk(l) = Pk(r) /\ Due(l)
  BY <1>1, <1>3 DEF RowsInv, QueueFine, Running
<1>5. NoTwin'
  BY <1>1 DEF NoTwin
<1>6. StoreFine' /\ QueueFine'
  BY <1>1 DEF RowsInv, StoreFine, QueueFine, LoadedModel, Due, Outside, Running
<1>7. DiffFine' /\ NewRows'
  BY <1>1 DEF RowsInv, DiffFine, NewRows, Due, Outside
<1>8. FlaggedStayUntouched'
  BY <1>1, <1>2 DEF RowsInv, FlaggedStayUntouched, Flagged, Running
<1>9. ScopeRespected'
  <2> SUFFICES ASSUME aux_leftover = {}, NEW r \in base, Key(r) \notin Keys(src), Outside(r)
               PROVE  r \in db'
    BY <1>1 DEF ScopeRespected, Outside
  <2>1. r \in db
    BY <1>1 DEF RowsInv, ScopeRespected, Outside, Running
  <2>2. ASSUME r \notin db' PROVE FALSE
    <3>1. PICK l \in base : Pk(l) = Pk(r) /\ Due(l)
      BY <1>3, <2>1, <2>2
    <3>2. l = r
      BY <3>1 DEF RowsInv, CoreInv, RowsFine, Fine
    <3> QED BY <3>1, <3>2 DEF Due
  <2> QED BY <2>2
<1>10. SourcedRowsSurvive'
  <2> SUFFICES ASSUME aux_leftover = {}, NEW r \in base, Key(r) \in Keys(src)
               PROVE  Pk(r) \in Pks(db')
    BY <1>1 DEF SourcedRowsSurvive
  <2>1. PICK q \in db : Pk(q) = Pk(r)
    BY DEF RowsInv, SourcedRowsSurvive, Pks
  <2>2. ASSUME q \notin db' PROVE FALSE
    <3>1. PICK l \in base : Pk(l) = Pk(q) /\ Due(l)
      BY <1>3, <2>2
    <3>2. Key(l) = Key(r)
      BY <2>1, <3>1, KeyOfPk
    <3> QED BY <3>1, <3>2 DEF Due
  <2> QED BY <2>1, <2>2 DEF Pks
<1>11. UnfilteredRunAddsNoDuplicate'
  BY <1>1 DEF RowsInv, UnfilteredRunAddsNoDuplicate, OneRowPer, Running, Unfiltered
<1> QED BY <1>5, <1>6, <1>7, <1>8, <1>9, <1>10, <1>11 DEF RowsInv

(* A handler. What it reaches of the rows the job began with is what the   *)
(* element it syncs stands for.                                            *)
LEMMA ElementsOfSource ==
  ASSUME RowsInv, NEW e \in diff
  PROVE  /\ e.action \in {"create", "update"} => Key(e) \in Keys(src)
         /\ e.action = "delete" => Key(e) \notin Keys(src)
<1>1. \A x : Key(ToElement(x, "create", {})) = Key(x)
  BY DEF Key, ToElement
<1>2. e.action = "create" => Key(e) \in Keys(src)
  BY <1>1 DEF RowsInv, CoreInv, Planned, Keys
<1>3. e.action = "update" => Key(e) \in Keys(src)
  BY DEF RowsInv, DiffFine
<1>4. e.action = "delete" => Key(e) \notin Keys(src)
  BY DEF RowsInv, DiffFine, Due
<1> QED BY <1>2, <1>3, <1>4

LEMMA ReachedKeepsNew ==
  ASSUME TypeOK, RowsInv, CoreInv', pc = "sync", Wrote, NEW e \in diff, Reached(e)
  PROVE  NewRows' /\ UnfilteredRunAddsNoDuplicate'
<1>1. /\ UNCHANGED <<base, run, src, job>> /\ pc' = "sync" /\ diff' = diff \ {e}
      /\ Pks(db) \subseteq Pks(db')
  BY DEF Wrote, Reached, Kept
<1>2. ASSUME NEW q \in db', Pk(q) \notin Pks(db)
      PROVE  /\ q.born = run
             /\ q.kind = "location" \/ (e.action = "create" /\ Key(q) = Key(e) /\ ~ Stored(dst, e))
  BY <1>2 DEF Reached, Kept
<1>3. ASSUME NEW q \in db', Pk(q) \in Pks(db)
      PROVE  \E p \in db : Pk(p) = Pk(q) /\ Key(p) = Key(q) /\ p.kind = q.kind /\ p.born = q.born
  <2>1. PICK p \in db : Pk(p) = Pk(q)
    BY <1>3 DEF Pks
  <2> QED BY <2>1, KeyOfPk
<1>4. NewRows'
  <2>1. Pks(base) \subseteq Pks(db')
    BY <1>1 DEF RowsInv, NewRows
  <2>2. ASSUME NEW q \in db' PROVE Pk(q) \in Pks(base) \/ q.born = run
    <3>1. CASE Pk(q) \in Pks(db)
      <4>1. PICK p \in db : Pk(p) = Pk(q) /\ p.born = q.born
        BY <1>3, <3>1
      <4> QED BY <4>1 DEF RowsInv, NewRows
    <3> QED BY <1>2, <3>1
  <2> QED BY <1>1, <2>1, <2>2 DEF NewRows
<1>5. UnfilteredRunAddsNoDuplicate'
  <2> SUFFICES ASSUME Unfiltered, OneRowPer(Key, base), NEW q \in db', NEW r \in db',
                      Key(q) = Key(r)
               PROVE  q = r
    BY <1>1 DEF UnfilteredRunAddsNoDuplicate, OneRowPer, Unfiltered
  <2>1. Fine(db') /\ q.kind = r.kind
    BY KindIs DEF CoreInv, RowsFine
  <2>2. CASE q.kind = "location"
    BY <2>1, <2>2 DEF Fine
  <2>3. ASSUME q.kind # "location", NEW p \in db', NEW n \in db', p.kind # "location",
               Key(p) = Key(n), Pk(p) \in Pks(db), Pk(n) \notin Pks(db)
        PROVE  FALSE
    <3>1. e.action = "create" /\ Key(n) = Key(e) /\ ~ Stored(dst, e) /\ e.kind # "location"
      BY <1>2, <2>3, KindIs
    <3>2. PICK k \in db : Pk(k) = Pk(p) /\ Key(k) = Key(e)
      BY <1>3, <2>3, <3>1
    <3>3. k.born # run
      BY <3>1, <3>2 DEF RowsInv, CoreInv, Planned
    <3>4. Pk(k) \in Pks(base)
      BY <3>3 DEF RowsInv, NewRows
    <3>5. Key(e) \in Keys(base)
      BY <3>2, <3>4, KeyOfPk DEF Pks, Keys
    <3> QED BY <3>1, <3>5 DEF RowsInv, NoTwin
  <2>4. CASE q.kind # "location" /\ Pk(q) \in Pks(db) /\ Pk(r) \in Pks(db)
    <3>1. PICK p \in db : Pk(p) = Pk(q) /\ Key(p) = Key(q)
      BY <1>3, <2>4
    <3>2. PICK n \in db : Pk(n) = Pk(r) /\ Key(n) = Key(r)
      BY <1>3, <2>4
    <3>3. p = n
      BY <3>1, <3>2 DEF RowsInv, UnfilteredRunAddsNoDuplicate, OneRowPer, Running
    <3> QED BY <2>1, <3>1, <3>2, <3>3 DEF Fine
  <2>5. CASE q.kind # "location" /\ Pk(q) \notin Pks(db) /\ Pk(r) \notin Pks(db)
    <3>1. q.born = run /\ r.born = run
      BY <1>2, <2>5
    <3>2. Pk(q) = Pk(r)
      BY <3>1 DEF Pk, Key
    <3> QED BY <2>1, <3>2 DEF Fine
  <2> QED BY <2>1, <2>2, <2>3, <2>4, <2>5
<1> QED BY <1>4, <1>5

LEMMA ReachedKeepsTwins ==
  ASSUME TypeOK, RowsInv, pc = "sync", Wrote, NEW e \in diff, Reached(e)
  PROVE  NoTwin'
<1>1. UNCHANGED <<base, src, job>> /\ pc' = "sync" /\ diff' = diff \ {e}
  BY DEF Wrote, Reached, Kept
<1> SUFFICES ASSUME Unfiltered, NEW f \in diff, f.action = "create", f.kind # "location",
                    Key(f) \in Keys(base)
             PROVE  Stored(dst', f)
  BY <1>1 DEF NoTwin, Unfiltered
<1>2. PICK m \in dst : Uid(m) = Uid(f)
  BY DEF RowsInv, NoTwin, Stored
<1>3. CASE m \in dst'
  BY <1>2, <1>3 DEF Stored
<1>4. CASE m \notin dst'
  <2>1. /\ e.action = "delete" /\ Uid(f) = Uid(e)
        /\ e.kind = "device" => Single(Named(db, "device", e.name))
    BY <1>2, <1>4 DEF Reached
  <2>2. e.kind = f.kind /\ e.name = f.name /\ (e.kind = "vlan" => e.site = f.site)
    BY <2>1, UidIs
  <2>3. Key(e) # Key(f)
    BY <2>1, ElementsOfSource
  <2>4. e.kind = "device"
    <3>1. e.kind \in Kinds
      BY DEF TypeOK, Element
    <3>2. e.kind # "vlan"
      BY <2>2, <2>3 DEF Key
    <3> QED BY <2>2, <3>1, <3>2 DEF Kinds
  <2>5. PICK l \in base : Key(l) = Key(e)
    BY <2>1 DEF RowsInv, DiffFine
  <2>6. PICK k \in base : Key(k) = Key(f)
    BY DEF Keys
  <2>11. Pks(base) \subseteq Pks(db)
    BY DEF RowsInv, NewRows
  <2>7. PICK p \in db : Pk(p) = Pk(l)
    BY <2>11 DEF Pks
  <2>8. PICK q \in db : Pk(q) = Pk(k)
    BY <2>11 DEF Pks
  <2>9. Key(p) = Key(e) /\ Key(q) = Key(f)
    BY <2>5, <2>6, <2>7, <2>8, KeyOfPk
  <2>10. p \in Named(db, "device", e.name) /\ q \in Named(db, "device", e.name)
    BY <2>2, <2>4, <2>9, KindIs DEF Named
  <2> QED BY <2>1, <2>3, <2>4, <2>9, <2>10 DEF Single
<1> QED BY <1>3, <1>4

LEMMA ReachedKeepsRows ==
  ASSUME TypeOK, RowsInv, CoreInv', Alone', pc = "sync", Wrote, NEW e \in diff, Reached(e)
  PROVE  RowsInv'
<1>1. /\ UNCHANGED <<base, run, src, job, aux_leftover>> /\ pc' = "sync" /\ diff' = diff \ {e}
      /\ Pks(db) \subseteq Pks(db') /\ Fine(db')
  BY DEF Wrote, Reached, Kept
<1>4. StoreFine'
  <2>1. \A m \in dst' : m.pk = None \/ LoadedModel(m)
    BY DEF RowsInv, StoreFine, Reached, Running
  <2> QED BY <1>1, <2>1 DEF StoreFine, LoadedModel, Outside
<1>5. DiffFine'
  BY <1>1 DEF RowsInv, DiffFine, Due, Outside
<1>6. QueueFine'
  <2>1. aux_leftover = {} => \A p \in objects_to_delete' : Deletable(p)
    BY DEF RowsInv, QueueFine, Reached, Running, Deletable
  <2> QED BY <1>1, <2>1 DEF QueueFine, Deletable, Due, Outside
<1>7. NewRows' /\ UnfilteredRunAddsNoDuplicate' /\ NoTwin'
  BY ReachedKeepsNew, ReachedKeepsTwins
<1>8. e.action \in {"create", "update", "delete"}
  BY DEF TypeOK, Element, Actions
<1>9. FlaggedStayUntouched'
  <2> SUFFICES ASSUME job.safe, NEW r \in base, IsFlagged(r), Key(r) \notin Keys(src)
               PROVE  r \in db' /\ Pk(r) \notin stamped'
    BY <1>1 DEF FlaggedStayUntouched, Flagged, Running
  <2>1. r \in db /\ Pk(r) \notin stamped
    BY DEF RowsInv, FlaggedStayUntouched, Flagged, Running
  <2>2. e.action # "delete" => Key(r) # Key(e)
    BY <1>8, ElementsOfSource
  <2>3. Spared(r)
    BY <2>1, <2>2 DEF Reached
  <2> QED BY <2>1, <2>3 DEF Spared
<1>10. ScopeRespected'
  <2> SUFFICES ASSUME aux_leftover = {}, NEW r \in base, Key(r) \notin Keys(src), Outside(r)
               PROVE  r \in db'
    BY <1>1 DEF ScopeRespected, Outside
  <2>1. r \in db
    BY DEF RowsInv, ScopeRespected, Outside, Running
  <2>2. e.action # "delete" => Key(r) # Key(e)
    BY <1>8, ElementsOfSource
  <2>3. ~ Deletable(Pk(r))
    BY DEF Deletable, RowsInv, CoreInv, RowsFine, Fine, Due
  <2>4. Spared(r)
    BY <2>1, <2>2, <2>3 DEF Reached
  <2> QED BY <2>4 DEF Spared
<1>11. SourcedRowsSurvive'
  BY <1>1 DEF RowsInv, SourcedRowsSurvive
<1> QED BY <1>4, <1>5, <1>6, <1>7, <1>9, <1>10, <1>11 DEF RowsInv

LEMMA NextRowsInv ==
  ASSUME TypeOK, SafeInv, ReferentialIntegrity, Inv, CoreInv', [Next]_vars, Alone'
  PROVE  RowsInv'
<1>1. CASE StartJob \/ LoadSource
  BY <1>1, BeginningKeepsRows DEF Inv
<1>2. CASE Ends
  BY <1>2 DEF Ends, ClientNotReady, Raise, WorkerRestart, FinishJob, Forget, Alone, Running
<1>3. CASE LoadTarget
  BY <1>3, LoadTargetKeepsRows DEF Inv
<1>4. CASE CalculateDiff
  <2>1. Alone
    BY <1>4 DEF CalculateDiff, Alone, Running
  <2> QED BY <1>4, <2>1, CalculateDiffKeepsRows DEF Inv
<1>5. CASE (ObjectNotCreated /\ pc = "sync") \/ SyncComplete \/ UNCHANGED vars
  <2>1. /\ pc \in {"sync", pc'} /\ pc' \in {"done", "vlan", pc}
        /\ UNCHANGED <<db, base, stamped, run, edits, aux_edits, objects_to_delete, aux_leftover,
                      src, dst, diff, job>>
    BY <1>5 DEF ObjectNotCreated, SyncComplete, vars, tables, process, locals
  <2>2. Alone
    BY <2>1 DEF Alone, Running
  <2> QED BY <2>1, <2>2, SyncEndsKeepsRows DEF Inv
<1>6. CASE DeleteGroup
  <2>1. Alone
    BY <1>6 DEF DeleteGroup, Cleanup, locals, Alone, Running
  <2> QED BY <1>6, <2>1, DeleteGroupKeepsRows DEF Inv
<1>7. CASE SyncElement
  <2>1. pc = "sync" /\ (ObjectNotCreated \/ Wrote \/ Raise)
    BY <1>7, SyncElementHandles DEF SyncElement, Handled
  <2>2. CASE Wrote
    <3>1. RowsInv
      BY <2>1, <2>2 DEF Wrote, Alone, Running, Inv
    <3> QED BY <1>2, <1>5, <1>7, <2>1, <3>1, ElementReaches, ReachedKeepsRows DEF Ends
  <2> QED BY <1>2, <1>5, <2>1, <2>2 DEF Ends
<1>8. CASE UserDeletes \/ UserEdits \/ UserAdds
  <2>1. edits' = edits + 1 /\ aux_edits' = aux_edits /\ aux_edits \leq edits
    BY <1>8 DEF UserDeletes, UserEdits, UserAdds, locals, Inv, CoreInv, RowsFine
  <2>2. edits' # aux_edits'
    BY <2>1 DEF TypeOK
  <2> QED BY <2>2 DEF Alone
<1> QED
  BY <1>1, <1>2, <1>3, <1>4, <1>5, <1>6, <1>7, <1>8
  DEF Next, JobStep, SourceFails, Ends

LEMMA NextInv ==
  TypeOK /\ SafeInv /\ ReferentialIntegrity /\ Inv /\ [Next]_vars => Inv'
<1> SUFFICES ASSUME TypeOK, SafeInv, ReferentialIntegrity, Inv, [Next]_vars PROVE Inv'
  OBVIOUS
<1>1. CoreInv'
  BY NextCore DEF Inv
<1>2. Alone' => RowsInv'
  BY <1>1, NextRowsInv
<1> QED BY <1>1, <1>2 DEF Inv

(* Rows, elements and the number of the job fit together whatever users    *)
(* do (CoreInv); as long as no user has edited since the job began, every  *)
(* model and every queued key has its place as well (RowsInv).             *)
THEOREM RowsInvariant == Spec => []Inv
<1>1. Init => Inv
  BY InitCore DEF Inv, Alone, Running, Init
<1>2. Spec => [](TypeOK /\ SafeInv /\ ReferentialIntegrity)
  BY InitTypeOK, NextTypeOK, InitSafeInv, NextSafeInv, ReferenceInit, ReferenceNext, PTL DEF Spec
<1> QED BY <1>1, <1>2, NextInv, PTL DEF Spec

(* As long as no user has edited since it began, a job in safe delete mode *)
(* leaves a flagged row that IP Fabric does not list as it is, its sync    *)
(* date included: safe_delete stamps only what it flags.                   *)
THEOREM FlaggedStay == Spec => []FlaggedStayUntouched
<1>1. Inv => FlaggedStayUntouched
  BY DEF Inv, RowsInv, FlaggedStayUntouched
<1> QED BY <1>1, RowsInvariant, PTL

(* With no edit since it began, and nothing left in the queue, a job takes *)
(* no row away and flags none that its options leave out: what the load    *)
(* left out of the store reaches no delete handler.                        *)
THEOREM ScopeIsRespected == Spec => []ScopeRespected
<1>1. Inv => ScopeRespected
  BY DEF Inv, RowsInv, ScopeRespected
<1> QED BY <1>1, RowsInvariant, PTL

(* With no edit since it began, and nothing left in the queue, a job       *)
(* removes no row that IP Fabric lists: a delete that looks a device up by *)
(* its name alone finds the one it means, or raises.                       *)
THEOREM SourcedSurvive == Spec => []SourcedRowsSurvive
<1>1. Inv => SourcedRowsSurvive
  BY DEF Inv, RowsInv, SourcedRowsSurvive
<1> QED BY <1>1, RowsInvariant, PTL

(* With no edit since it began, a job without filters adds no second row   *)
(* of one kind, name and site: get_or_create by every field meets only     *)
(* what the store has no model of.                                         *)
THEOREM NoDuplicateAdded == Spec => []UnfilteredRunAddsNoDuplicate
<1>1. Inv => UnfilteredRunAddsNoDuplicate
  BY DEF Inv, RowsInv, UnfilteredRunAddsNoDuplicate
<1> QED BY <1>1, RowsInvariant, PTL
=============================================================================
